---- MODULE Spec2Model ----
(***************************************************************************)
(* Shalom Dental Care: the Supabase-backed appointment tracker.            *)
(*                                                                         *)
(* The repository holds two implementations of SupabaseAppointmentTracker: *)
(*   impl = "A"  the local-first tracker (src/unnamed/part_000): a record  *)
(*               is pushed to the in-memory collection and persisted       *)
(*               before the remote insert is awaited;                      *)
(*   impl = "B"  the remote-first tracker (src/supabase-config.js): the    *)
(*               remote insert is awaited first, and the tracker listens   *)
(*               to the table's live-update feed.                          *)
(* JavaScript is single threaded: every action below is the code that runs *)
(* between two awaits.  A remote call is three steps: the handler up to    *)
(* its await, the server processing the request, and the continuation      *)
(* that handles the response.  Live-update events travel on their own      *)
(* channel and may be delivered between any two steps.                     *)
(***************************************************************************)
EXTENDS Integers, Sequences, FiniteSets, TLC

\* ---------------------------------------------------------------- bounds
\* Requests made of the appointments table: the operations called on the
\* tracker of this page and the writes of other clients, those that left rows
\* in the table before the page opened included.
MaxOps == 3

\* --------------------------------------------------------------- values
NoCode == <<>>                   \* a record field that is not set (undefined)
LocalCode(n) == <<"APT", n>>     \* the n-th code this page generates
ExternalCode(n) == <<"EXT", n>>  \* a code generated by another client

Statuses == {"pending", "confirmed", "cancelled"}
NewStatuses == {"confirmed", "cancelled"}   \* statuses an admin action sets
ExtStatuses == {"cancelled"}                \* statuses another page sets
NoteTexts == {"ok"}                         \* notes an admin action sets

\* A row of the remote appointments table (snake-case columns).
Row(id, code, status, notes) ==
    [id |-> id, appointment_id |-> code, status |-> status, notes |-> notes]

\* A record of the in-memory collection.  Rows of the remote table carry the
\* code in appointment_id; records built locally carry it in appointmentId.
Rec(id, snake, camel, status, notes) ==
    [id |-> id, appointment_id |-> snake, appointmentId |-> camel,
     status |-> status, notes |-> notes]

\* A remote row as it sits in the collection of the remote-first tracker.
RowAsRecord(row) == Rec(row.id, row.appointment_id, NoCode, row.status, row.notes)

\* The local-first tracker maps every loaded row to the local format.
MapLoaded(row) == Rec(row.id, NoCode, row.appointment_id, row.status, row.notes)

\* The appointment code a record carries, whichever field holds it.
CodeOf(r) == IF r.appointmentId # NoCode THEN r.appointmentId ELSE r.appointment_id

Max(S) == CHOOSE x \in S : \A y \in S : y <= x

RECURSIVE SortDesc(_)
\* .order('created_at', { ascending: false }): rows are created in id order.
SortDesc(S) ==
    IF S = {} THEN <<>>
    ELSE LET top == CHOOSE r \in S : \A q \in S : q.id <= r.id
         IN <<top>> \o SortDesc(S \ {top})

Ids(s) == {s[i].id : i \in 1..Len(s)}

\* A lookup that falls back to the first record on a miss.
FindIndexOrFirst(s, id) ==
    IF \E i \in 1..Len(s) : s[i].id = id
    THEN CHOOSE i \in 1..Len(s) : s[i].id = id /\ \A j \in 1..(i-1) : s[j].id # id
    ELSE IF Len(s) > 0 THEN 1 ELSE 0

\* Array.prototype.findIndex(a => a.id === id): first match, 0 for -1.
FindIndex(s, id) ==
    IF \E i \in 1..Len(s) : s[i].id = id
    THEN CHOOSE i \in 1..Len(s) : s[i].id = id /\ \A j \in 1..(i-1) : s[j].id # id
    ELSE 0

NextIdAfterLoadB(s) == IF Len(s) > 0 THEN Max(Ids(s)) + 1 ELSE 1
NextIdAfterLoadA(s) == Max(Ids(s) \cup {0}) + 1

VARIABLES
    impl,          \* which implementation runs on the page
    supabase,      \* TRUE iff the client handle is not null
    useDatabase,   \* this.useDatabase
    appointments,  \* this.appointments
    nextId,        \* this.nextId
    nextCode,      \* source of generateAppointmentId()
    stored,        \* device-local snapshot of the collection
    remote,        \* rows of the remote appointments table
    remoteSeq,     \* the table's SERIAL id sequence
    loadPc,        \* initial load: "none", "sent", "replied", "done"
    loadResp,      \* response of the initial load
    subscribed,    \* live-update subscription set up
    events,        \* live-update events not yet delivered
    op,            \* the tracker operation in flight
    last,          \* how the last finished operation ended
    lastEvent,     \* how the last live-update event was handled
    prevSync,      \* the previous finished sync run, while the local set is unchanged
    ops,           \* tracker operations and other clients' writes so far
    fbTable,       \* rows of the remote feedback table
    fbSeq,         \* the feedback table's SERIAL id sequence
    fbOp,          \* the SupabaseFeedbackManager operation in flight
    fbLast,        \* what the last finished feedback operation returned
    libraryLoaded, \* typeof supabase !== 'undefined'
    credentials,   \* supabaseConfig: url and anonKey, each "missing", "placeholder", "valid"
    supabaseClient,\* the module-level client variable: "null" or "handle"
    constructions, \* calls of createClient so far
    factoryLast,   \* what the last run of the client factory came to
    env            \* the sources getEnvVar reads for a name, and what it returned

trackerVars == <<impl, supabase, useDatabase, appointments, nextId, nextCode, stored,
                 remote, remoteSeq, loadPc, loadResp, subscribed, events, op, last,
                 lastEvent, prevSync>>
feedbackVars == <<fbTable, fbSeq, fbOp, fbLast>>
factoryVars == <<libraryLoaded, credentials, supabaseClient, constructions, factoryLast,
                 env>>
auxVars == <<feedbackVars, factoryVars>>

vars == <<trackerVars, ops, auxVars>>

Idle == [kind |-> "none"]

\* A name no source defines, resolved to the fallback of supabaseConfig.
Undefined == "<undefined>"
Unresolved == "<unresolved>"
Env(window, process, meta, fallback, result) ==
    [window |-> window, process |-> process, meta |-> meta, fallback |-> fallback,
     result |-> result]
EnvDone == Env(Undefined, Undefined, Undefined, "fallback", "fallback")
NoSync == [valid |-> FALSE]

\* Rows other clients left in the table before the page opened.
SeedRows(n) == {Row(i, ExternalCode(i), "pending", "") : i \in 1..n}

\* The feedback manager before its first call.
FeedbackInit ==
    /\ fbTable = {}
    /\ fbSeq = 1
    /\ fbOp = Idle
    /\ fbLast = Idle

\* The page whose client module has run: the tracker holds its result, a
\* handle, or null because the library was not loaded.
FactoryDone ==
    /\ libraryLoaded = supabase
    /\ credentials = [url |-> "valid", anonKey |-> "valid"]
    /\ supabaseClient = IF supabase THEN "handle" ELSE "null"
    /\ constructions = IF supabase THEN 1 ELSE 0
    /\ factoryLast = Idle
    /\ env = EnvDone

Init ==
    /\ impl \in {"A", "B"}
    /\ supabase \in BOOLEAN
    /\ useDatabase = supabase
    /\ appointments = <<>>
    /\ nextId = 1
    /\ nextCode = 1
    /\ stored = <<>>
    /\ \E n \in 0..MaxOps :
         remote = SeedRows(n) /\ remoteSeq = n + 1 /\ ops = n
    /\ loadPc = IF supabase THEN "sent" ELSE "none"
    /\ loadResp = [ok |-> FALSE]
    /\ subscribed = FALSE
    /\ events = <<>>
    /\ op = Idle
    /\ last = Idle
    /\ lastEvent = Idle
    /\ prevSync = NoSync
    /\ FeedbackInit
    /\ FactoryDone

\* A change of the table is published to the subscribed tracker.
Emit(ev) == IF subscribed THEN Append(events, ev) ELSE events

Event(type, new, old) == [eventType |-> type, new |-> new, old |-> old]

\* The table without its UNIQUE constraint.
CanInsertAny(code) == TRUE

\* appointment_id VARCHAR(20) UNIQUE NOT NULL
CanInsert(code) == \A r \in remote : r.appointment_id # code

\* What a remote call can come to: the request is processed, the client
\* library returns an { error } result, or the call throws.
Outcomes == {"ok", "error", "throw"}
\* addAppointment, updateAppointmentStatus and the load treat an { error }
\* result and a thrown exception alike (a message apart).
Replies == {"ok", "fail"}

\* ------------------------------------------------------------ initial load

\* select('*').order('created_at', { ascending: false })
LoadServer ==
    /\ loadPc = "sent"
    /\ loadPc' = "replied"
    /\ \/ loadResp' = [ok |-> TRUE, data |-> SortDesc(remote)]
       \/ loadResp' = [ok |-> FALSE]
    /\ UNCHANGED <<impl, supabase, useDatabase, appointments, nextId, nextCode,
                   stored, remote, remoteSeq, subscribed, events, op, last,
                   lastEvent, prevSync, ops>>
    /\ UNCHANGED auxVars

\* loadFromSupabase after its await (local-first tracker).
A_LoadDone ==
    /\ impl = "A" /\ loadPc = "replied"
    /\ loadPc' = "done"
    /\ IF loadResp.ok /\ Len(loadResp.data) > 0
       THEN /\ appointments' = [i \in 1..Len(loadResp.data) |->
                                  MapLoaded(loadResp.data[i])]
            /\ nextId' = NextIdAfterLoadA(appointments')
            /\ stored' = appointments'
            \* the record an addAppointment in flight holds is no longer in the array
            /\ op' = IF op.kind = "add" THEN [op EXCEPT !.live = FALSE] ELSE op
            /\ prevSync' = NoSync
       ELSE UNCHANGED <<appointments, nextId, stored, op, prevSync>>
    /\ UNCHANGED <<impl, supabase, useDatabase, nextCode, remote, remoteSeq,
                   loadResp, subscribed, events, last, lastEvent, ops>>
    /\ UNCHANGED auxVars

\* initializeSupabase without its catch block: a failed load is rethrown and
\* the rest of the method never runs.
B_LoadDoneUncaught ==
    /\ impl = "B" /\ loadPc = "replied" /\ loadResp.ok
    /\ loadPc' = "done"
    /\ appointments' = [i \in 1..Len(loadResp.data) |-> RowAsRecord(loadResp.data[i])]
    /\ nextId' = NextIdAfterLoadB(appointments')
    /\ subscribed' = TRUE
    /\ UNCHANGED <<impl, supabase, useDatabase, nextCode, stored, remote, remoteSeq,
                   loadResp, events, op, last, lastEvent, prevSync, ops>>
    /\ UNCHANGED auxVars

\* initializeSupabase whose catch block leaves useDatabase as it is.
B_LoadDoneStaysRemote ==
    /\ impl = "B" /\ loadPc = "replied"
    /\ loadPc' = "done"
    /\ IF loadResp.ok
       THEN /\ appointments' = [i \in 1..Len(loadResp.data) |->
                                  RowAsRecord(loadResp.data[i])]
            /\ nextId' = NextIdAfterLoadB(appointments')
            /\ subscribed' = TRUE
       ELSE UNCHANGED <<appointments, nextId, subscribed>>
    /\ UNCHANGED <<impl, supabase, useDatabase, nextCode, stored, remote, remoteSeq,
                   loadResp, events, op, last, lastEvent, prevSync, ops>>
    /\ UNCHANGED auxVars

\* initializeSupabase after awaiting loadAppointmentsFromSupabase
\* (remote-first tracker).
B_LoadDone ==
    /\ impl = "B" /\ loadPc = "replied"
    /\ loadPc' = "done"
    /\ IF loadResp.ok
       THEN /\ appointments' = [i \in 1..Len(loadResp.data) |->
                                  RowAsRecord(loadResp.data[i])]
            /\ nextId' = NextIdAfterLoadB(appointments')
            /\ subscribed' = TRUE
            /\ UNCHANGED useDatabase
       ELSE /\ useDatabase' = FALSE
            /\ UNCHANGED <<appointments, nextId, subscribed>>
    /\ UNCHANGED <<impl, supabase, nextCode, stored, remote, remoteSeq, loadResp,
                   events, op, last, lastEvent, prevSync,
                   ops>>
    /\ UNCHANGED auxVars

\* ---------------------------------------------------------- addAppointment

\* The server handles the insert of an addAppointment in flight.
AddServer ==
    /\ op.kind = "add" /\ op.phase = "sent"
    /\ \E out \in Replies :
         IF out = "ok" /\ CanInsert(op.code)
         THEN LET row == Row(remoteSeq, op.code, "pending", "")
              IN /\ remote' = remote \cup {row}
                 /\ remoteSeq' = remoteSeq + 1
                 /\ events' = Emit(Event("INSERT", row, row))
                 /\ op' = [op EXCEPT !.phase = "replied", !.result = "ok", !.data = row]
         ELSE /\ op' = [op EXCEPT !.phase = "replied",
                                  !.result = "fail"]
              /\ UNCHANGED <<remote, remoteSeq, events>>
    /\ UNCHANGED <<impl, supabase, useDatabase, appointments, nextId, nextCode,
                   stored, loadPc, loadResp, subscribed, last, lastEvent,
                   prevSync, ops>>
    /\ UNCHANGED auxVars

AddOp(code, idx, lid) ==
    [kind |-> "add", phase |-> "sent", code |-> code, idx |-> idx, lid |-> lid,
     live |-> TRUE, loading |-> loadPc \in {"sent", "replied"},
     result |-> "none", data |-> Row(0, NoCode, "pending", "")]

AddLast(outcome, code, id) ==
    [kind |-> "add", outcome |-> outcome, code |-> code, id |-> id]

\* addAppointment that takes this.nextId without moving it on.
A_AddCallSameId ==
    /\ impl = "A" /\ op = Idle /\ ops < MaxOps
    /\ ops' = ops + 1
    /\ LET code == LocalCode(nextCode)
           appointment == Rec(nextId, NoCode, code, "pending", "")
       IN /\ nextCode' = nextCode + 1
          /\ nextId' = nextId
          /\ appointments' = Append(appointments, appointment)
          /\ stored' = appointments'
          /\ IF supabase
             THEN op' = AddOp(code, Len(appointments'), nextId) /\ UNCHANGED last
             ELSE op' = Idle /\ last' = AddLast("local", code, nextId)
    /\ prevSync' = NoSync
    /\ UNCHANGED <<impl, supabase, useDatabase, remote, remoteSeq, loadPc, loadResp,
                   subscribed, events, lastEvent>>
    /\ UNCHANGED auxVars

\* addAppointment up to its await (local-first tracker).
A_AddCall ==
    /\ impl = "A" /\ op = Idle /\ ops < MaxOps
    /\ ops' = ops + 1
    /\ LET code == LocalCode(nextCode)
           appointment == Rec(nextId, NoCode, code, "pending", "")
       IN /\ nextCode' = nextCode + 1
          /\ nextId' = nextId + 1
          /\ appointments' = Append(appointments, appointment)
          /\ stored' = appointments'
          /\ IF supabase
             THEN op' = AddOp(code, Len(appointments'), nextId) /\ UNCHANGED last
             ELSE op' = Idle /\ last' = AddLast("local", code, nextId)
    /\ prevSync' = NoSync
    /\ UNCHANGED <<impl, supabase, useDatabase, remote, remoteSeq, loadPc, loadResp,
                   subscribed, events, lastEvent>>
    /\ UNCHANGED auxVars

\* addAppointment after its await (local-first tracker): appointment.id = data.id
A_AddDone ==
    /\ impl = "A" /\ op.kind = "add" /\ op.phase = "replied"
    /\ op' = Idle
    /\ IF op.result = "ok"
       THEN /\ appointments' = IF op.live
                                THEN [appointments EXCEPT ![op.idx].id = op.data.id]
                                ELSE appointments
            /\ stored' = appointments'
            /\ last' = AddLast("ok", op.code, op.data.id)
       ELSE /\ last' = AddLast("fail", op.code, op.lid)
            /\ UNCHANGED <<appointments, stored>>
    /\ prevSync' = NoSync
    /\ UNCHANGED <<impl, supabase, useDatabase, nextId, nextCode, remote, remoteSeq,
                   loadPc, loadResp, subscribed, events, lastEvent, ops>>
    /\ UNCHANGED auxVars

\* addAppointment up to its await (remote-first tracker).
B_AddCall ==
    /\ impl = "B" /\ op = Idle /\ ops < MaxOps
    /\ ops' = ops + 1
    /\ LET generatedId == LocalCode(nextCode)
       IN /\ nextCode' = nextCode + 1
          /\ IF useDatabase /\ supabase
             THEN /\ op' = AddOp(generatedId, 0, 0)
                  /\ UNCHANGED <<appointments, nextId, stored, last>>
             ELSE /\ appointments' =
                        <<Rec(nextId, generatedId, generatedId, "pending", "")>> \o appointments
                  /\ nextId' = nextId + 1
                  /\ stored' = appointments'
                  /\ op' = Idle
                  /\ last' = AddLast("local", generatedId, nextId)
    /\ UNCHANGED <<impl, supabase, useDatabase, remote, remoteSeq, loadPc, loadResp,
                   subscribed, events, lastEvent, prevSync>>
    /\ UNCHANGED auxVars

\* addAppointment after awaiting saveAppointmentToSupabase (remote-first tracker).
B_AddDone ==
    /\ impl = "B" /\ op.kind = "add" /\ op.phase = "replied"
    /\ op' = Idle
    /\ IF op.result = "ok"
       THEN LET savedAppointment ==
                    [RowAsRecord(op.data) EXCEPT !.appointmentId = op.data.appointment_id]
            IN /\ appointments' = <<savedAppointment>> \o appointments
               /\ last' = AddLast("ok", op.code, op.data.id)
               /\ UNCHANGED <<nextId, stored>>
       ELSE /\ appointments' =
                  <<Rec(nextId, op.code, op.code, "pending", "")>> \o appointments
            /\ nextId' = nextId + 1
            /\ stored' = appointments'
            /\ last' = AddLast("fail", op.code, nextId)
    /\ UNCHANGED <<impl, supabase, useDatabase, nextCode, remote, remoteSeq, loadPc,
                   loadResp, subscribed, events, lastEvent, prevSync,
                   ops>>
    /\ UNCHANGED auxVars

\* ------------------------------------------------- updateAppointmentStatus

\* The ids an admin action can name: those on screen, and one that is not.
IdInputs == Ids(appointments) \cup {Max(Ids(appointments) \cup {0}) + 1}

UpdateOp(id, status, notes, oldStatus) ==
    [kind |-> "update", phase |-> "sent", id |-> id, status |-> status,
     notes |-> notes, oldStatus |-> oldStatus, result |-> "none",
     data |-> Row(0, NoCode, "pending", "")]

UpdateLast(outcome, id, status, notes, oldStatus, emailed) ==
    [kind |-> "update", outcome |-> outcome, id |-> id, status |-> status,
     notes |-> notes, oldStatus |-> oldStatus, emailed |-> emailed]

\* if (status === 'confirmed') this.sendEmailNotification(appointment, 'confirmed')
A_SendsEmail(status, oldStatus) == status = "confirmed"

\* sendEmailNotification in the success path of the remote-first tracker.
B_SendsEmail(status, oldStatus) == status = "confirmed"

\* The server handles the update of an updateAppointmentStatus in flight:
\* update({status, notes, updated_at}).eq('id', id); the remote-first tracker
\* adds .select().single(), an error unless exactly one row matched.
UpdateServer ==
    /\ op.kind = "update" /\ op.phase = "sent"
    /\ \E out \in Replies :
         IF out = "ok"
         THEN LET hit == {r \in remote : r.id = op.id}
                  new(r) == [r EXCEPT !.status = op.status, !.notes = op.notes]
              IN /\ remote' = (remote \ hit) \cup {new(r) : r \in hit}
                 /\ IF hit = {}
                    THEN /\ events' = events
                         /\ op' = [op EXCEPT !.phase = "replied",
                                    !.result = IF impl = "B" THEN "fail" ELSE "ok"]
                    ELSE LET r == CHOOSE x \in hit : TRUE
                         IN /\ events' = Emit(Event("UPDATE", new(r), r))
                            /\ op' = [op EXCEPT !.phase = "replied", !.result = "ok",
                                                !.data = new(r)]
         ELSE /\ op' = [op EXCEPT !.phase = "replied", !.result = out]
              /\ UNCHANGED <<remote, events>>
    /\ UNCHANGED <<impl, supabase, useDatabase, appointments, nextId, nextCode,
                   stored, remoteSeq, loadPc, loadResp, subscribed, last, lastEvent,
                   prevSync, ops>>
    /\ UNCHANGED auxVars

\* updateAppointmentStatus up to its await (local-first tracker).
A_UpdateCall(id, status, notes) ==
    /\ impl = "A" /\ op = Idle /\ ops < MaxOps
    /\ ops' = ops + 1
    /\ LET i == FindIndex(appointments, id)
       IN IF i = 0
          THEN /\ last' = UpdateLast("notfound", id, status, notes, "none", FALSE)
               /\ UNCHANGED <<appointments, stored, op, prevSync>>
          ELSE /\ appointments' = [appointments EXCEPT ![i].status = status,
                                                       ![i].notes = notes]
               /\ stored' = appointments'
               /\ prevSync' = NoSync
               /\ IF supabase
                  THEN /\ op' = UpdateOp(id, status, notes, appointments[i].status)
                       /\ UNCHANGED last
                  ELSE /\ op' = Idle
                       /\ last' = UpdateLast("local", id, status, notes,
                                             appointments[i].status,
                                             A_SendsEmail(status, appointments[i].status))
    /\ UNCHANGED <<impl, supabase, useDatabase, nextId, nextCode, remote, remoteSeq,
                   loadPc, loadResp, subscribed, events, lastEvent>>
    /\ UNCHANGED auxVars

\* updateAppointmentStatus after its await (local-first tracker).
A_UpdateDone ==
    /\ impl = "A" /\ op.kind = "update" /\ op.phase = "replied"
    /\ op' = Idle
    /\ last' = UpdateLast(IF op.result = "ok" THEN "ok" ELSE "fail", op.id, op.status,
                          op.notes, op.oldStatus, A_SendsEmail(op.status, op.oldStatus))
    /\ UNCHANGED <<impl, supabase, useDatabase, appointments, nextId, nextCode,
                   stored, remote, remoteSeq, loadPc, loadResp, subscribed, events,
                   lastEvent, prevSync, ops>>
    /\ UNCHANGED auxVars

\* updateAppointmentStatus without the session check.
B_UpdateCallAnySession(id, status, notes, sessionValid) ==
    /\ impl = "B" /\ op = Idle /\ ops < MaxOps
    /\ ops' = ops + 1
    /\ LET i == FindIndex(appointments, id)
       IN IF i = 0
          THEN /\ last' = UpdateLast("notfound", id, status, notes, "none", FALSE)
               /\ UNCHANGED <<appointments, stored, op>>
          ELSE IF useDatabase
          THEN /\ op' = UpdateOp(id, status, notes, appointments[i].status)
               /\ UNCHANGED <<appointments, stored, last>>
          ELSE /\ appointments' = [appointments EXCEPT ![i].status = status,
                                                       ![i].notes = notes]
               /\ stored' = appointments'
               /\ op' = Idle
               /\ last' = UpdateLast("local", id, status, notes,
                                     appointments[i].status, FALSE)
    /\ UNCHANGED <<impl, supabase, useDatabase, nextId, nextCode, remote, remoteSeq,
                   loadPc, loadResp, subscribed, events, lastEvent, prevSync>>
    /\ UNCHANGED auxVars

\* updateAppointmentStatus up to its await (remote-first tracker).
B_UpdateCall(id, status, notes, sessionValid) ==
    /\ impl = "B" /\ op = Idle /\ ops < MaxOps
    /\ ops' = ops + 1
    /\ LET i == FindIndex(appointments, id)
       IN IF ~sessionValid
          THEN /\ last' = UpdateLast("expired", id, status, notes, "none", FALSE)
               /\ UNCHANGED <<appointments, stored, op>>
          ELSE IF i = 0
          THEN /\ last' = UpdateLast("notfound", id, status, notes, "none", FALSE)
               /\ UNCHANGED <<appointments, stored, op>>
          ELSE IF useDatabase
          THEN /\ op' = UpdateOp(id, status, notes, appointments[i].status)
               /\ UNCHANGED <<appointments, stored, last>>
          ELSE /\ appointments' = [appointments EXCEPT ![i].status = status,
                                                       ![i].notes = notes]
               /\ stored' = appointments'
               /\ op' = Idle
               /\ last' = UpdateLast("local", id, status, notes,
                                     appointments[i].status, FALSE)
    /\ UNCHANGED <<impl, supabase, useDatabase, nextId, nextCode, remote, remoteSeq,
                   loadPc, loadResp, subscribed, events, lastEvent, prevSync>>
    /\ UNCHANGED auxVars

\* updateAppointmentStatus after awaiting updateAppointmentInSupabase
\* (remote-first tracker).
B_UpdateDone ==
    /\ impl = "B" /\ op.kind = "update" /\ op.phase = "replied"
    /\ op' = Idle
    /\ IF op.result = "ok"
       THEN LET index == FindIndex(appointments, op.id)
            IN /\ appointments' = IF index # 0
                                   THEN [appointments EXCEPT ![index] = RowAsRecord(op.data)]
                                   ELSE appointments
               /\ last' = UpdateLast("ok", op.id, op.status, op.notes, op.oldStatus,
                                     B_SendsEmail(op.status, op.oldStatus))
       ELSE /\ last' = UpdateLast("fail", op.id, op.status, op.notes, op.oldStatus, FALSE)
            /\ UNCHANGED appointments
    /\ UNCHANGED <<impl, supabase, useDatabase, nextId, nextCode, stored, remote,
                   remoteSeq, loadPc, loadResp, subscribed, events, lastEvent,
                   prevSync, ops>>
    /\ UNCHANGED auxVars

\* ---------------------------------------- syncLocalToSupabase (local-first)

\* Remote rows that carry the appointment code of a record of arr.
RowsFor(arr, rows) ==
    {r \in rows : \E k \in 1..Len(arr) : CodeOf(arr[k]) = r.appointment_id}

SyncOp(arr) ==
    [kind |-> "sync", phase |-> "select", arr |-> arr, i |-> 1, synced |-> 0,
     errors |-> 0, wrote |-> 0, existing |-> 0]

\* What the loop does with the outcome of a record's remote write: the awaited
\* update or insert is not inspected for an { error } result.
SyncCounts(o, out) ==
    IF out = "throw"
    THEN [o EXCEPT !.errors = o.errors + 1]
    ELSE [o EXCEPT !.synced = o.synced + 1]

\* syncLocalToSupabase up to the first await.
A_SyncCall ==
    /\ impl = "A" /\ op = Idle /\ ops < MaxOps
    /\ ops' = ops + 1
    /\ IF ~supabase
       THEN /\ last' = [kind |-> "sync", outcome |-> "notconnected"]
            /\ UNCHANGED op
       ELSE /\ op' = SyncOp(appointments)
            /\ UNCHANGED last
    /\ UNCHANGED <<impl, supabase, useDatabase, appointments, nextId, nextCode,
                   stored, remote, remoteSeq, loadPc, loadResp, subscribed, events,
                   lastEvent, prevSync>>
    /\ UNCHANGED auxVars

\* select('id').eq('appointment_id', appointment.appointmentId).maybeSingle()
\* and the code up to the next await; only data is read from the result.
A_SyncSelect ==
    /\ impl = "A" /\ op.kind = "sync" /\ op.phase = "select" /\ op.i <= Len(op.arr)
    /\ \E out \in Outcomes :
         LET code == op.arr[op.i].appointmentId
             found == {r \in remote : r.appointment_id = code}
         IN IF out = "throw"
            THEN op' = [op EXCEPT !.errors = op.errors + 1, !.i = op.i + 1]
            ELSE op' = [op EXCEPT !.phase = "write",
                          !.existing = IF out = "ok" /\ found # {}
                                       THEN (CHOOSE r \in found : TRUE).id ELSE 0]
    /\ UNCHANGED <<impl, supabase, useDatabase, appointments, nextId, nextCode,
                   stored, remote, remoteSeq, loadPc, loadResp, subscribed, events,
                   last, lastEvent, prevSync, ops>>
    /\ UNCHANGED auxVars

\* The update by remote id or the insert of one record, and the counting.
A_SyncWrite ==
    /\ impl = "A" /\ op.kind = "sync" /\ op.phase = "write"
    /\ \E out \in Outcomes :
         LET a == op.arr[op.i]
             hit == {r \in remote : r.id = op.existing}
             new(r) == [r EXCEPT !.status = a.status, !.notes = a.notes]
             row == Row(remoteSeq, a.appointmentId, a.status, a.notes)
             landed == out = "ok" /\ (op.existing # 0 \/ CanInsert(a.appointmentId))
             counted == SyncCounts(op, out)
         IN /\ op' = [counted EXCEPT !.phase = "select", !.i = op.i + 1,
                         !.wrote = IF landed THEN op.wrote + 1 ELSE op.wrote]
            /\ IF ~landed
               THEN UNCHANGED <<remote, remoteSeq, events>>
               ELSE IF op.existing # 0
               THEN /\ remote' = (remote \ hit) \cup {new(r) : r \in hit}
                    /\ events' = IF hit = {} THEN events
                                 ELSE LET r == CHOOSE x \in hit : TRUE
                                      IN Emit(Event("UPDATE", new(r), r))
                    /\ UNCHANGED remoteSeq
               ELSE /\ remote' = remote \cup {row}
                    /\ remoteSeq' = remoteSeq + 1
                    /\ events' = Emit(Event("INSERT", row, row))
    /\ UNCHANGED <<impl, supabase, useDatabase, appointments, nextId, nextCode,
                   stored, loadPc, loadResp, subscribed, last, lastEvent,
                   prevSync, ops>>
    /\ UNCHANGED auxVars

\* The loop has ended: the summary is reported.
A_SyncDone ==
    /\ impl = "A" /\ op.kind = "sync" /\ op.phase = "select" /\ op.i > Len(op.arr)
    /\ op' = Idle
    /\ LET rows == Cardinality(RowsFor(op.arr, remote))
       IN /\ last' = [kind |-> "sync", outcome |-> "done", n |-> Len(op.arr),
                      synced |-> op.synced, errors |-> op.errors, wrote |-> op.wrote,
                      rows |-> rows,
                      prev |-> IF prevSync.valid /\ prevSync.arr = op.arr
                               THEN prevSync ELSE NoSync]
          /\ prevSync' = [valid |-> TRUE, arr |-> op.arr, rows |-> rows,
                          clean |-> \A k \in 1..Len(op.arr) :
                                      RowsFor(<<op.arr[k]>>, remote) # {}]
    /\ UNCHANGED <<impl, supabase, useDatabase, appointments, nextId, nextCode,
                   stored, remote, remoteSeq, loadPc, loadResp, subscribed, events,
                   lastEvent, ops>>
    /\ UNCHANGED auxVars

\* ---------------------------------------- syncLocalToSupabase (remote-first)

\* syncLocalToSupabase up to the first await: nothing is done without the
\* database or when the device-local snapshot is empty.
B_SyncCall ==
    /\ impl = "B" /\ op = Idle /\ ops < MaxOps
    /\ ops' = ops + 1
    /\ LET localAppointments == stored
       IN IF ~useDatabase \/ Len(localAppointments) = 0
          THEN /\ last' = [kind |-> "sync", outcome |-> "skipped"]
               /\ UNCHANGED op
          ELSE /\ op' = SyncOp(localAppointments)
               /\ UNCHANGED last
    /\ UNCHANGED <<impl, supabase, useDatabase, appointments, nextId, nextCode,
                   stored, remote, remoteSeq, loadPc, loadResp, subscribed, events,
                   lastEvent, prevSync>>
    /\ UNCHANGED auxVars

\* select('id').eq('appointment_id', appointment.appointmentId).single() and the
\* code up to the next await; only data is read from the result, and a throw
\* ends the run in the catch block.
B_SyncSelect ==
    /\ impl = "B" /\ op.kind = "sync" /\ op.phase = "select" /\ op.i <= Len(op.arr)
    /\ \E out \in Outcomes :
         LET code == op.arr[op.i].appointmentId
             existing == out = "ok" /\ \E r \in remote : r.appointment_id = code
         IN IF out = "throw"
            THEN /\ op' = Idle
                 /\ last' = [kind |-> "sync", outcome |-> "fail"]
            ELSE /\ op' = IF existing THEN [op EXCEPT !.i = op.i + 1]
                                       ELSE [op EXCEPT !.phase = "write"]
                 /\ UNCHANGED last
    /\ UNCHANGED <<impl, supabase, useDatabase, appointments, nextId, nextCode,
                   stored, remote, remoteSeq, loadPc, loadResp, subscribed, events,
                   lastEvent, prevSync, ops>>
    /\ UNCHANGED auxVars

\* saveAppointmentToSupabase of one record: an { error } result is thrown
\* again, so either failure ends the run in the catch block.
B_SyncWrite ==
    /\ impl = "B" /\ op.kind = "sync" /\ op.phase = "write"
    /\ \E out \in Replies :
         LET a == op.arr[op.i]
             row == Row(remoteSeq, a.appointmentId, a.status, "")
         IN IF out = "ok" /\ CanInsert(a.appointmentId)
            THEN /\ remote' = remote \cup {row}
                 /\ remoteSeq' = remoteSeq + 1
                 /\ events' = Emit(Event("INSERT", row, row))
                 /\ op' = [op EXCEPT !.phase = "select", !.i = op.i + 1,
                                     !.wrote = op.wrote + 1]
                 /\ UNCHANGED last
            ELSE /\ op' = Idle
                 /\ last' = [kind |-> "sync", outcome |-> "fail"]
                 /\ UNCHANGED <<remote, remoteSeq, events>>
    /\ UNCHANGED <<impl, supabase, useDatabase, appointments, nextId, nextCode,
                   stored, loadPc, loadResp, subscribed, lastEvent, prevSync, ops>>
    /\ UNCHANGED auxVars

\* The loop has ended: loadAppointmentsFromSupabase is awaited, and its
\* failure is caught as well.
B_SyncLoad ==
    /\ impl = "B" /\ op.kind = "sync" /\ op.phase = "select" /\ op.i > Len(op.arr)
    /\ op' = Idle
    /\ \E out \in Replies :
         IF out = "ok"
         THEN LET data == SortDesc(remote)
              IN /\ appointments' = [i \in 1..Len(data) |-> RowAsRecord(data[i])]
                 /\ nextId' = NextIdAfterLoadB(appointments')
                 /\ last' = [kind |-> "sync", outcome |-> "done"]
         ELSE /\ last' = [kind |-> "sync", outcome |-> "fail"]
              /\ UNCHANGED <<appointments, nextId>>
    /\ UNCHANGED <<impl, supabase, useDatabase, nextCode, stored, remote, remoteSeq,
                   loadPc, loadResp, subscribed, events, lastEvent, prevSync, ops>>
    /\ UNCHANGED auxVars

\* ------------------------------------------------ live updates (remote-first)

HasId(apps, id) == \E i \in 1..Len(apps) : apps[i].id = id

\* The handler without its id-presence check.
HandleInsertUnchecked(apps, newRecord) == Append(apps, RowAsRecord(newRecord))

\* case 'INSERT'
HandleInsert(apps, newRecord) ==
    IF ~HasId(apps, newRecord.id) THEN Append(apps, RowAsRecord(newRecord)) ELSE apps

InsertNotifies(apps, newRecord) == ~HasId(apps, newRecord.id)

\* The handler as an upsert: a miss appends the row.
HandleUpdateUpsert(apps, newRecord) ==
    LET updateIndex == FindIndex(apps, newRecord.id)
    IN IF updateIndex # 0
       THEN [apps EXCEPT ![updateIndex] = RowAsRecord(newRecord)]
       ELSE Append(apps, RowAsRecord(newRecord))

\* The handler dropping an UPDATE event for the record that an
\* updateAppointmentStatus in flight is updating.
HandleUpdateUnlessInFlight(apps, newRecord) ==
    LET updateIndex == FindIndex(apps, newRecord.id)
    IN IF updateIndex # 0 /\ ~(op.kind = "update" /\ op.id = newRecord.id)
       THEN [apps EXCEPT ![updateIndex] = RowAsRecord(newRecord)]
       ELSE apps

\* case 'UPDATE'
HandleUpdate(apps, newRecord) ==
    LET updateIndex == FindIndex(apps, newRecord.id)
    IN IF updateIndex # 0
       THEN [apps EXCEPT ![updateIndex] = RowAsRecord(newRecord)]
       ELSE apps

\* The handler removing only the first record with the id.
HandleDeleteFirst(apps, oldRecord) ==
    LET k == FindIndex(apps, oldRecord.id)
    IN IF k = 0 THEN apps ELSE SubSeq(apps, 1, k - 1) \o SubSeq(apps, k + 1, Len(apps))

\* case 'DELETE'
HandleDelete(apps, oldRecord) == SelectSeq(apps, LAMBDA a : a.id # oldRecord.id)

\* handleRealTimeUpdate(payload) for the event at the head of the channel.
B_RealTime ==
    /\ impl = "B" /\ events # <<>>
    /\ LET payload == Head(events)
           hit == HasId(appointments, IF payload.eventType = "DELETE"
                                      THEN payload.old.id ELSE payload.new.id)
       IN /\ events' = Tail(events)
          /\ appointments' =
               CASE payload.eventType = "INSERT" -> HandleInsert(appointments, payload.new)
                 [] payload.eventType = "UPDATE" -> HandleUpdate(appointments, payload.new)
                 [] payload.eventType = "DELETE" -> HandleDelete(appointments, payload.old)
          /\ lastEvent' =
               [kind |-> payload.eventType, hit |-> hit,
                id |-> payload.new.id, code |-> payload.new.appointment_id,
                notified |-> CASE payload.eventType = "INSERT" ->
                                      InsertNotifies(appointments, payload.new)
                               [] payload.eventType = "UPDATE" -> hit
                               [] payload.eventType = "DELETE" -> TRUE]
    /\ UNCHANGED <<impl, supabase, useDatabase, nextId, nextCode, stored, remote,
                   remoteSeq, loadPc, loadResp, subscribed, op, last, prevSync, ops>>
    /\ UNCHANGED auxVars

\* ------------------------------------------------------------ other clients

\* Another page books an appointment.
ExtInsert ==
    /\ ops < MaxOps
    /\ ops' = ops + 1
    /\ LET row == Row(remoteSeq, ExternalCode(remoteSeq), "pending", "")
       IN /\ remote' = remote \cup {row}
          /\ remoteSeq' = remoteSeq + 1
          /\ events' = Emit(Event("INSERT", row, row))
    /\ UNCHANGED <<impl, supabase, useDatabase, appointments, nextId, nextCode,
                   stored, loadPc, loadResp, subscribed, op, last, lastEvent,
                   prevSync>>
    /\ UNCHANGED auxVars

\* Another admin page changes the status of a row.
ExtUpdate(r, status) ==
    /\ ops < MaxOps
    /\ r \in remote /\ r.status # status
    /\ ops' = ops + 1
    /\ LET new == [r EXCEPT !.status = status]
       IN /\ remote' = (remote \ {r}) \cup {new}
          /\ events' = Emit(Event("UPDATE", new, r))
    /\ UNCHANGED <<impl, supabase, useDatabase, appointments, nextId, nextCode,
                   stored, remoteSeq, loadPc, loadResp, subscribed, op, last,
                   lastEvent, prevSync>>
    /\ UNCHANGED auxVars

\* A row is deleted from the table.
ExtDelete(r) ==
    /\ ops < MaxOps
    /\ r \in remote
    /\ ops' = ops + 1
    /\ remote' = remote \ {r}
    /\ events' = Emit(Event("DELETE", r, r))
    /\ UNCHANGED <<impl, supabase, useDatabase, appointments, nextId, nextCode,
                   stored, remoteSeq, loadPc, loadResp, subscribed, op, last,
                   lastEvent, prevSync>>
    /\ UNCHANGED auxVars

\* Steps of the server and of other clients, whichever tracker the page runs.
Environment ==
    \/ LoadServer
    \/ AddServer
    \/ UpdateServer
    \/ ExtInsert
    \/ \E r \in remote, status \in ExtStatuses : ExtUpdate(r, status)
    \/ \E r \in remote : ExtDelete(r)

\* The local-first tracker.
NextA ==
    \/ Environment
    \/ A_LoadDone
    \/ A_AddCall
    \/ A_AddDone
    \/ \E id \in IdInputs, status \in NewStatuses, notes \in NoteTexts :
          A_UpdateCall(id, status, notes)
    \/ A_UpdateDone
    \/ A_SyncCall
    \/ A_SyncSelect
    \/ A_SyncWrite
    \/ A_SyncDone

\* The remote-first tracker.
NextB ==
    \/ Environment
    \/ B_LoadDone
    \/ B_AddCall
    \/ B_AddDone
    \/ \E id \in IdInputs, status \in NewStatuses, notes \in NoteTexts,
          sessionValid \in BOOLEAN :
          B_UpdateCall(id, status, notes, sessionValid)
    \/ B_UpdateDone
    \/ B_RealTime

InitA == Init /\ impl = "A"
InitB == Init /\ impl = "B"

SpecA == InitA /\ [][NextA]_vars
SpecB == InitB /\ [][NextB]_vars

\* The page runs one tracker or the other.
NextAB == NextA \/ NextB
SpecAB == Init /\ [][NextAB]_vars

\* Either tracker, the migration helper of the remote-first tracker included.
NextFull ==
    \/ NextAB
    \/ B_SyncCall
    \/ B_SyncSelect
    \/ B_SyncWrite
    \/ B_SyncLoad

SpecFull == Init /\ [][NextFull]_vars

\* -------------------------------------------------- SupabaseFeedbackManager

NullText == "<null>"               \* a text that is NULL in the table, undefined in an input

\* A JavaScript value a caller can pass for appointmentId: undefined, a number
\* or a string.  chars is the text of a string and, for a number, the text
\* String(number) gives.
JsUndefined == [type |-> "undefined", chars |-> <<>>]
JsNumber(chars) == [type |-> "number", chars |-> chars]
JsString(chars) == [type |-> "string", chars |-> chars]

\* undefined, '' and 0 are falsy.
Truthy(v) ==
    CASE v.type = "undefined" -> FALSE
      [] v.type = "string" -> v.chars # <<>>
      [] v.type = "number" -> v.chars # <<"0">>

Digits == {"0", "1", "2", "3", "4", "5", "6", "7", "8", "9"}
DigitVal(c) ==
    CASE c = "0" -> 0 [] c = "1" -> 1 [] c = "2" -> 2 [] c = "3" -> 3 [] c = "4" -> 4
      [] c = "5" -> 5 [] c = "6" -> 6 [] c = "7" -> 7 [] c = "8" -> 8 [] c = "9" -> 9

RECURSIVE SkipSpaces(_)
SkipSpaces(cs) == IF cs # <<>> /\ Head(cs) = " " THEN SkipSpaces(Tail(cs)) ELSE cs

RECURSIVE LeadingDigits(_)
\* The longest prefix of cs made of digits.
LeadingDigits(cs) ==
    IF cs # <<>> /\ Head(cs) \in Digits
    THEN <<Head(cs)>> \o LeadingDigits(Tail(cs))
    ELSE <<>>

RECURSIVE ToInt(_)
ToInt(ds) ==
    IF ds = <<>> THEN 0
    ELSE 10 * ToInt(SubSeq(ds, 1, Len(ds) - 1)) + DigitVal(ds[Len(ds)])

NaN == [nan |-> TRUE, n |-> 0]

\* parseInt(text) in base 10: leading white space is skipped, a sign is taken,
\* then the digits up to the first character that is not one; NaN without a
\* digit.
ParseInt(cs) ==
    LET t == SkipSpaces(cs)
        signed == t # <<>> /\ Head(t) \in {"-", "+"}
        ds == LeadingDigits(IF signed THEN Tail(t) ELSE t)
    IN IF ds = <<>> THEN NaN
       ELSE [nan |-> FALSE,
             n |-> IF signed /\ Head(t) = "-" THEN 0 - ToInt(ds) ELSE ToInt(ds)]

\* The appointment_id a feedback row carries: the field left out, null, an
\* integer, or a value that is not a JSON integer, as text.
Omitted == [kind |-> "omitted", n |-> 0, chars |-> <<>>]
NullLink == [kind |-> "null", n |-> 0, chars |-> <<>>]
IntLink(n) == [kind |-> "int", n |-> n, chars |-> <<>>]
RawLink(chars) == [kind |-> "raw", n |-> 0, chars |-> chars]

\* appointment_id: feedbackData.appointmentId || null (local-first file)
A_Link(appointmentId) ==
    IF ~Truthy(appointmentId) THEN NullLink
    ELSE IF appointmentId.type = "number"
              /\ LeadingDigits(appointmentId.chars) = appointmentId.chars
         THEN IntLink(ToInt(appointmentId.chars))
         ELSE RawLink(appointmentId.chars)

\* feedback.appointmentId ? parseInt(feedback.appointmentId) : null, and the
\* delete of a falsy or NaN appointment_id (remote-first file)
B_Link(appointmentId) ==
    LET parsed == IF Truthy(appointmentId) THEN ParseInt(appointmentId.chars) ELSE NaN
    IN IF parsed.nan \/ parsed.n = 0 THEN Omitted ELSE IntLink(parsed.n)

\* What the INTEGER column appointment_id takes from the value of a request:
\* NULL for a field left out or null, the integer a text spells out, and an
\* error for any other text.
ColumnInt(link) ==
    CASE link.kind \in {"omitted", "null"} -> [ok |-> TRUE, link |-> NullLink]
      [] link.kind = "int" -> [ok |-> TRUE, link |-> link]
      [] link.kind = "raw" ->
           LET p == ParseInt(link.chars)
               t == SkipSpaces(link.chars)
               body == IF t # <<>> /\ Head(t) \in {"-", "+"} THEN Tail(t) ELSE t
           IN IF ~p.nan /\ LeadingDigits(body) = body
              THEN [ok |-> TRUE, link |-> IntLink(p.n)]
              ELSE [ok |-> FALSE, link |-> NullLink]

\* What saveFeedback is called with: a feedback fit for the homepage, and ones
\* that miss one of its conditions each.
Feedback(rating, comments, show) ==
    [rating |-> rating, comments |-> comments, showOnHomepage |-> show,
     appointmentId |-> JsUndefined]
SaveInputs ==
    {Feedback(4, "great", TRUE), Feedback(3, "great", TRUE),
     Feedback(4, NullText, TRUE), Feedback(4, "great", FALSE)}
\* The field sets an updateFeedback call supplies.
UpdateInputs == {{"showOnHomepage"}, {"rating", "comments"}}

\* .limit(6)
HomepageLimit == 6

\* A row of the remote feedback table.
FeedbackRow(id, rating, comments, show) ==
    [id |-> id, rating |-> rating, comments |-> comments, show_on_homepage |-> show,
     appointment_id |-> NullLink, updated_at |-> 0]

\* new Date() / NOW(): the time of the k-th request of the page is k.
Now == ops

NoFeedback == FeedbackRow(0, 3, NullText, FALSE)

\* x || ''
OrEmpty(x) == IF x = NullText THEN "" ELSE x

\* .eq('show_on_homepage', true).gte('rating', 4)
EligibleA(rows) == {r \in rows : r.show_on_homepage = TRUE /\ r.rating >= 4}

\* .eq('show_on_homepage', true).gte('rating', 4).neq('comments', ''): a NULL
\* text does not satisfy <> ''.
EligibleB(rows) ==
    {r \in rows : r.show_on_homepage = TRUE /\ r.rating >= 4
                  /\ r.comments # NullText /\ r.comments # ""}

RECURSIVE OrderTestimonials(_)
\* .order('rating', { ascending: false }).order('created_at', { ascending: false })
OrderTestimonials(S) ==
    IF S = {} THEN <<>>
    ELSE LET top == CHOOSE r \in S : \A q \in S :
                        q.rating < r.rating \/ (q.rating = r.rating /\ q.id <= r.id)
         IN <<top>> \o OrderTestimonials(S \ {top})

Take(s, n) == SubSeq(s, 1, IF Len(s) < n THEN Len(s) ELSE n)

\* The record the homepage gets for a row (local-first file).
TestimonialA(fb) == [rating |-> fb.rating, comments |-> fb.comments]

\* The record the homepage gets for a row (remote-first file).
TestimonialB(fb) ==
    [id |-> fb.id, rating |-> fb.rating, comments |-> fb.comments,
     showOnHomepage |-> fb.show_on_homepage]

\* What a feedback operation hands to its caller.
Returned(isNull, row, list, flag) ==
    [raised |-> FALSE, isNull |-> isNull, row |-> row, list |-> list, flag |-> flag]
Raised == [raised |-> TRUE, isNull |-> TRUE, row |-> NoFeedback, list |-> <<>>, flag |-> FALSE]

ReturnsNull == Returned(TRUE, NoFeedback, <<>>, FALSE)
ReturnsRow(row) == Returned(FALSE, row, <<>>, FALSE)
ReturnsList(list) == Returned(FALSE, NoFeedback, list, FALSE)
ReturnsFlag(flag) == Returned(FALSE, NoFeedback, <<>>, flag)

FeedbackOp(kind, row, fields) ==
    [kind |-> kind, phase |-> "sent", row |-> row, fields |-> fields,
     out |-> "none", data |-> NoFeedback, rows |-> <<>>]

FeedbackLast(kind, out, ret, rows) ==
    [kind |-> kind, out |-> out, ret |-> ret, rows |-> rows]

\* A feedback operation starts: without a client it returns at once.
FeedbackCall(kind, row, fields, disconnected) ==
    /\ fbOp = Idle /\ ops < MaxOps
    /\ ops' = ops + 1
    /\ IF ~supabase
       THEN /\ fbLast' = FeedbackLast(kind, "disconnected", disconnected, <<>>)
            /\ UNCHANGED fbOp
       ELSE /\ fbOp' = FeedbackOp(kind, row, fields)
            /\ fbLast' = Idle
    /\ UNCHANGED <<trackerVars, fbTable, fbSeq, factoryVars>>

\* The row saveFeedback builds of a feedback.
SaveRow(feedbackData) ==
    [FeedbackRow(0, feedbackData.rating, OrEmpty(feedbackData.comments),
                 feedbackData.showOnHomepage)
       EXCEPT !.appointment_id = IF impl = "A" THEN A_Link(feedbackData.appointmentId)
                                 ELSE B_Link(feedbackData.appointmentId),
              \* updated_at: new Date().toISOString() (remote-first file only)
              !.updated_at = IF impl = "A" THEN 0 ELSE Now + 1]

\* What the table makes of the insert of a row: the row stored under the next
\* id, or an error (appointment_id INTEGER REFERENCES appointments(id)).
Inserted(row) ==
    LET ref == ColumnInt(row.appointment_id)
    IN [ok |-> ref.ok /\ (ref.link = NullLink \/ \E a \in remote : a.id = ref.link.n),
        row |-> [row EXCEPT !.id = fbSeq, !.appointment_id = ref.link,
                            \* updated_at TIMESTAMPTZ DEFAULT NOW()
                            !.updated_at = IF @ = 0 THEN Now ELSE @]]

\* saveFeedback up to its await.
SaveFeedback(feedbackData) == FeedbackCall("save", SaveRow(feedbackData), {}, ReturnsNull)

\* loadAllFeedback up to its await.
LoadAllFeedback == FeedbackCall("loadAll", NoFeedback, {}, ReturnsList(<<>>))

\* loadHomepageTestimonials up to its await.
LoadHomepageTestimonials == FeedbackCall("loadHomepage", NoFeedback, {}, ReturnsList(<<>>))

\* deleteFeedback up to its await (remote-first file only).
DeleteFeedback(feedbackId) ==
    /\ impl = "B"
    /\ FeedbackCall("delete", FeedbackRow(feedbackId, 3, NullText, FALSE), {},
                    ReturnsFlag(FALSE))

\* updateFeedback up to its await (remote-first file only): only the supplied
\* fields go into the request.
UpdateFeedback(feedbackId, fields, rating, comments, showOnHomepage) ==
    /\ impl = "B"
    /\ FeedbackCall("update",
                    [FeedbackRow(feedbackId, rating, comments, showOnHomepage)
                       EXCEPT !.updated_at = Now + 1],
                    fields, ReturnsNull)

\* An update that writes every column of the request, supplied or not.
ApplyUpdateWhole(r, row, fields) ==
    [r EXCEPT !.show_on_homepage = row.show_on_homepage,
              !.rating = row.rating,
              !.comments = row.comments,
              !.updated_at = row.updated_at]

\* The row an update request leaves of a row of the table: supabaseUpdates
\* holds the supplied fields, and updated_at in every case.
ApplyUpdate(r, row, fields) ==
    [r EXCEPT !.show_on_homepage = IF "showOnHomepage" \in fields
                                   THEN row.show_on_homepage ELSE @,
              !.rating = IF "rating" \in fields THEN row.rating ELSE @,
              !.comments = IF "comments" \in fields THEN row.comments ELSE @,
              !.updated_at = row.updated_at]

\* The server handles the request of the feedback operation in flight.
FeedbackServer ==
    /\ fbOp # Idle /\ fbOp.phase = "sent"
    /\ \E out \in Outcomes :
         LET replied == [fbOp EXCEPT !.phase = "replied", !.out = out]
             hit == {r \in fbTable : r.id = fbOp.row.id}
         IN IF out # "ok"
            THEN fbOp' = replied /\ UNCHANGED <<fbTable, fbSeq>>
            ELSE CASE fbOp.kind = "save" ->
                        LET ins == Inserted(fbOp.row)
                        IN IF ins.ok
                           THEN /\ fbTable' = fbTable \cup {ins.row}
                                /\ fbSeq' = fbSeq + 1
                                /\ fbOp' = [replied EXCEPT !.data = ins.row]
                           ELSE /\ fbOp' = [replied EXCEPT !.out = "error"]
                                /\ UNCHANGED <<fbTable, fbSeq>>
                   [] fbOp.kind = "loadAll" ->
                        /\ fbOp' = [replied EXCEPT !.rows = SortDesc(fbTable)]
                        /\ UNCHANGED <<fbTable, fbSeq>>
                   [] fbOp.kind = "loadHomepage" ->
                        /\ fbOp' = [replied EXCEPT !.rows =
                               Take(OrderTestimonials(IF impl = "A"
                                                      THEN EligibleA(fbTable)
                                                      ELSE EligibleB(fbTable)),
                                    HomepageLimit)]
                        /\ UNCHANGED <<fbTable, fbSeq>>
                   [] fbOp.kind = "delete" ->
                        /\ fbTable' = fbTable \ hit
                        /\ fbOp' = replied
                        /\ UNCHANGED fbSeq
                   [] fbOp.kind = "update" ->
                        \* .single(): an error unless exactly one row matched
                        IF hit = {}
                        THEN fbOp' = [replied EXCEPT !.out = "error"]
                             /\ UNCHANGED <<fbTable, fbSeq>>
                        ELSE LET r == CHOOSE x \in hit : TRUE
                                 new == ApplyUpdate(r, fbOp.row, fbOp.fields)
                             IN /\ fbTable' = (fbTable \ hit) \cup {new}
                                /\ fbOp' = [replied EXCEPT !.data = new]
                                /\ UNCHANGED fbSeq
    /\ UNCHANGED <<trackerVars, ops, fbLast, factoryVars>>

\* saveFeedback and updateFeedback after the await: the row, or null.
ReturnRowOrNull(o) == IF o.out = "ok" THEN ReturnsRow(o.data) ELSE ReturnsNull

\* loadAllFeedback after the await: the rows, or [].
ReturnAllFeedback(o) == IF o.out = "ok" THEN ReturnsList(o.rows) ELSE ReturnsList(<<>>)

\* loadHomepageTestimonials after the await: the mapped rows, or [].
ReturnTestimonials(o) ==
    IF o.out = "ok"
    THEN ReturnsList([k \in 1..Len(o.rows) |->
                        IF impl = "A" THEN TestimonialA(o.rows[k])
                        ELSE TestimonialB(o.rows[k])])
    ELSE ReturnsList(<<>>)

\* deleteFeedback after the await: true, or false.
ReturnDeleted(o) == ReturnsFlag(o.out = "ok")

\* The operation without its catch block.
ReturnUncaught(o) == IF o.out = "throw" THEN Raised ELSE ReturnsNull

\* The continuation of the feedback operation in flight.
FeedbackReturn(o) ==
    CASE o.kind \in {"save", "update"} -> ReturnRowOrNull(o)
      [] o.kind = "loadAll" -> ReturnAllFeedback(o)
      [] o.kind = "loadHomepage" -> ReturnTestimonials(o)
      [] o.kind = "delete" -> ReturnDeleted(o)

FeedbackDone ==
    /\ fbOp # Idle /\ fbOp.phase = "replied"
    /\ fbOp' = Idle
    /\ fbLast' = FeedbackLast(fbOp.kind, fbOp.out, FeedbackReturn(fbOp), fbOp.rows)
    /\ UNCHANGED <<trackerVars, ops, fbTable, fbSeq, factoryVars>>

\* Another client writes a feedback row: one with no comments text, which
\* saveFeedback itself never writes.
ExtFeedback(rating, comments, show) ==
    /\ ops < MaxOps
    /\ ops' = ops + 1
    /\ fbTable' = fbTable \cup {[FeedbackRow(fbSeq, rating, comments, show)
                                   EXCEPT !.updated_at = Now + 1]}
    /\ fbSeq' = fbSeq + 1
    /\ UNCHANGED <<trackerVars, fbOp, fbLast, factoryVars>>

\* The feedback manager of either file.
NextF ==
    \/ \E feedbackData \in SaveInputs : SaveFeedback(feedbackData)
    \/ LoadAllFeedback
    \/ LoadHomepageTestimonials
    \/ \E id \in 1..fbSeq : DeleteFeedback(id)
    \/ \E id \in 1..fbSeq, fields \in UpdateInputs :
          UpdateFeedback(id, fields, 4, "", TRUE)
    \/ FeedbackServer
    \/ FeedbackDone
    \/ ExtFeedback(4, NullText, TRUE)

InitF == Init /\ ops = 0

SpecF == InitF /\ [][NextF]_vars

\* ----------------------------- SupabaseFeedbackManager.syncLocalToSupabase

\* The lists syncLocalToSupabase is called with: none, the empty list, and
\* lists of feedbacks, some of them of an appointment.
SyncItems ==
    {Feedback(4, "great", TRUE),
     [Feedback(3, "good", FALSE) EXCEPT !.appointmentId = JsNumber(<<"1">>)]}
NoList == [given |-> FALSE, items |-> <<>>]
SyncLists ==
    {NoList} \cup {[given |-> TRUE, items |-> l] :
                     l \in UNION {[1..n -> SyncItems] : n \in 0..MaxOps}}

\* syncLocalToSupabase(localFeedbackList) up to the first saveFeedback
\* (remote-first file only).
FeedbackSyncCall(localFeedbackList) ==
    /\ impl = "B" /\ fbOp = Idle /\ ops < MaxOps
    /\ ops' = ops + 1
    /\ IF ~supabase \/ ~localFeedbackList.given \/ Len(localFeedbackList.items) = 0
       THEN /\ fbLast' = [kind |-> "sync", out |-> "skipped", synced |-> 0,
                          list |-> localFeedbackList.items, results |-> <<>>]
            /\ UNCHANGED fbOp
       ELSE /\ fbOp' = [kind |-> "sync", phase |-> "loop",
                        list |-> localFeedbackList.items, i |-> 1, synced |-> 0,
                        results |-> <<>>]
            /\ fbLast' = Idle
    /\ UNCHANGED <<trackerVars, fbTable, fbSeq, factoryVars>>

\* The loop leaving at the first item that was not saved.
FeedbackSyncItemOrStop ==
    /\ fbOp.kind = "sync" /\ fbOp.i <= Len(fbOp.list)
    /\ \E out \in Outcomes :
         LET ins == Inserted(SaveRow(fbOp.list[fbOp.i]))
         IN IF out = "ok" /\ ins.ok
            THEN /\ fbTable' = fbTable \cup {ins.row}
                 /\ fbSeq' = fbSeq + 1
                 /\ fbOp' = [fbOp EXCEPT !.i = @ + 1, !.synced = @ + 1,
                                         !.results = Append(@, ins.row.id)]
            ELSE /\ fbOp' = [fbOp EXCEPT !.i = Len(fbOp.list) + 1]
                 /\ UNCHANGED <<fbTable, fbSeq>>
    /\ UNCHANGED <<trackerVars, ops, fbLast, factoryVars>>

\* One turn of the loop: saveFeedback(feedback) is awaited, and a result that
\* is not null is counted.
FeedbackSyncItem ==
    /\ fbOp.kind = "sync" /\ fbOp.i <= Len(fbOp.list)
    /\ \E out \in Outcomes :
         LET ins == Inserted(SaveRow(fbOp.list[fbOp.i]))
         IN IF out = "ok" /\ ins.ok
            THEN /\ fbTable' = fbTable \cup {ins.row}
                 /\ fbSeq' = fbSeq + 1
                 /\ fbOp' = [fbOp EXCEPT !.i = @ + 1, !.synced = @ + 1,
                                         !.results = Append(@, ins.row.id)]
            ELSE /\ fbOp' = [fbOp EXCEPT !.i = @ + 1, !.results = Append(@, 0)]
                 /\ UNCHANGED <<fbTable, fbSeq>>
    /\ UNCHANGED <<trackerVars, ops, fbLast, factoryVars>>

\* The loop has ended: return synced.
FeedbackSyncDone ==
    /\ fbOp.kind = "sync" /\ fbOp.i > Len(fbOp.list)
    /\ fbOp' = Idle
    /\ fbLast' = [kind |-> "sync", out |-> "done", synced |-> fbOp.synced,
                  list |-> fbOp.list, results |-> fbOp.results]
    /\ UNCHANGED <<trackerVars, ops, fbTable, fbSeq, factoryVars>>

NextFeedbackSync ==
    \/ \E localFeedbackList \in SyncLists : FeedbackSyncCall(localFeedbackList)
    \/ FeedbackSyncItem
    \/ FeedbackSyncDone
    \/ ExtFeedback(4, NullText, TRUE)

SpecFeedbackSync == InitB /\ [][NextFeedbackSync]_vars

\* The appointmentId values saveFeedback is called with: none, '', 0, the id of
\* an appointment as a number and as text, and texts and numbers that are not
\* an integer.
LinkInputs ==
    {JsUndefined, JsString(<<>>), JsNumber(<<"0">>),
     JsNumber(<<"1">>), JsString(<<"1">>), JsString(<<"1", "2">>),
     JsString(<<"a", "b", "c">>), JsString(<<"1", "a", "b">>),
     JsString(<<"1", ".", "5">>), JsNumber(<<"1", ".", "5">>)}

\* saveFeedback called for feedback of an appointment.
NextLink ==
    \/ \E appointmentId \in LinkInputs :
          SaveFeedback([Feedback(4, "great", TRUE) EXCEPT !.appointmentId = appointmentId])
    \/ FeedbackServer
    \/ FeedbackDone

SpecLink == Init /\ [][NextLink]_vars

\* ------------------------------------------------ the tracker with no client

\* The operations of either tracker on a page whose client is null.
NextLocal ==
    \/ A_AddCall
    \/ B_AddCall
    \/ \E id \in IdInputs, status \in NewStatuses, notes \in NoteTexts :
          A_UpdateCall(id, status, notes)
    \/ \E id \in IdInputs, status \in NewStatuses, notes \in NoteTexts,
          sessionValid \in BOOLEAN :
          B_UpdateCall(id, status, notes, sessionValid)
    \/ A_SyncCall

InitLocal == Init /\ ~supabase

SpecLocal == InitLocal /\ [][NextLocal]_vars

\* --------------------------------------------------- the remote client factory

\* What getEnvVar can resolve a field of supabaseConfig to: an injected value,
\* possibly the placeholder of a template, or the non-empty fallback.
ResolvedFields == {"placeholder", "valid"}
\* What a field of the exported supabaseConfig object can hold later on.
ConfigFields == {"missing", "placeholder", "valid"}

\* !url || !anonKey || url === 'YOUR_SUPABASE_URL' || anonKey === 'YOUR_SUPABASE_ANON_KEY'
A_Unconfigured(c) ==
    \/ c.url = "missing" \/ c.anonKey = "missing"
    \/ c.url = "placeholder" \/ c.anonKey = "placeholder"

\* !(url !== 'your-supabase-url-here' && anonKey !== 'your-supabase-anon-key-here')
B_Unconfigured(c) == ~(c.url # "placeholder" /\ c.anonKey # "placeholder")

\* What createClient can come to.
Constructions == {"ok", "throw"}

FactoryLast(kind, ret, why) == [kind |-> kind, ret |-> ret, why |-> why]

\* initSupabase() of the local-first file: at load and on any later call.
A_InitSupabase ==
    /\ impl = "A" /\ ops < MaxOps
    /\ ops' = ops + 1
    /\ IF supabaseClient # "null"
       THEN /\ factoryLast' = FactoryLast("init", supabaseClient, "cached")
            /\ UNCHANGED <<supabaseClient, constructions>>
       ELSE IF ~libraryLoaded
       THEN /\ factoryLast' = FactoryLast("init", "null", "nolibrary")
            /\ UNCHANGED <<supabaseClient, constructions>>
       ELSE IF A_Unconfigured(credentials)
       THEN /\ factoryLast' = FactoryLast("init", "null", "unconfigured")
            /\ UNCHANGED <<supabaseClient, constructions>>
       ELSE /\ constructions' = constructions + 1
            /\ \E out \in Constructions :
                 IF out = "ok"
                 THEN /\ supabaseClient' = "handle"
                      /\ factoryLast' = FactoryLast("init", "handle", "created")
                 ELSE /\ factoryLast' = FactoryLast("init", "null", "threw")
                      /\ UNCHANGED supabaseClient
    /\ UNCHANGED <<env, trackerVars, feedbackVars, libraryLoaded, credentials>>

\* The module-level code of the remote-first file, run once when the script
\* is loaded.
B_CreateClient ==
    /\ impl = "B" /\ factoryLast = Idle /\ ops < MaxOps
    /\ ops' = ops + 1
    /\ IF ~libraryLoaded
       THEN /\ factoryLast' = FactoryLast("init", "null", "nolibrary")
            /\ UNCHANGED <<supabaseClient, constructions>>
       ELSE IF B_Unconfigured(credentials)
       THEN /\ factoryLast' = FactoryLast("init", "null", "unconfigured")
            /\ UNCHANGED <<supabaseClient, constructions>>
       ELSE /\ constructions' = constructions + 1
            /\ \E out \in Constructions :
                 IF out = "ok"
                 THEN /\ supabaseClient' = "handle"
                      /\ factoryLast' = FactoryLast("init", "handle", "created")
                 ELSE /\ factoryLast' = FactoryLast("init", "null", "threw")
                      /\ UNCHANGED supabaseClient
    /\ UNCHANGED <<env, trackerVars, feedbackVars, libraryLoaded, credentials>>

\* A constructor of the remote-first file takes the client the module holds:
\* this.supabase = supabaseClient.
B_ReadClient ==
    /\ impl = "B" /\ factoryLast # Idle /\ ops < MaxOps
    /\ ops' = ops + 1
    /\ factoryLast' = FactoryLast("read", supabaseClient, "cached")
    /\ UNCHANGED <<env, trackerVars, feedbackVars, libraryLoaded, credentials,
                   supabaseClient, constructions>>

\* The script of the client library finishes loading.
LibraryLoads ==
    /\ ~libraryLoaded
    /\ libraryLoaded' = TRUE
    /\ UNCHANGED <<env, trackerVars, ops, feedbackVars, credentials, supabaseClient,
                   constructions, factoryLast>>

\* A script of the page edits the exported configuration object
\* (window.supabaseConfig, local-first file only).
ConfigEdited(url, anonKey) ==
    /\ impl = "A" /\ factoryLast # Idle
    /\ credentials # [url |-> url, anonKey |-> anonKey]
    /\ credentials' = [url |-> url, anonKey |-> anonKey]
    /\ UNCHANGED <<env, trackerVars, ops, feedbackVars, libraryLoaded, supabaseClient,
                   constructions, factoryLast>>

NextFactory ==
    \/ A_InitSupabase
    \/ B_CreateClient
    \/ B_ReadClient
    \/ LibraryLoads
    \/ \E url \in ConfigFields, anonKey \in ConfigFields : ConfigEdited(url, anonKey)

\* The page before the script of either file has run: no tracker, no feedback
\* manager.
BlankPage ==
    /\ impl \in {"A", "B"}
    /\ supabase = FALSE
    /\ useDatabase = FALSE
    /\ appointments = <<>>
    /\ nextId = 1
    /\ nextCode = 1
    /\ stored = <<>>
    /\ remote = {} /\ remoteSeq = 1 /\ ops = 0
    /\ loadPc = "none"
    /\ loadResp = [ok |-> FALSE]
    /\ subscribed = FALSE
    /\ events = <<>>
    /\ op = Idle
    /\ last = Idle
    /\ lastEvent = Idle
    /\ prevSync = NoSync
    /\ FeedbackInit

\* The configuration is resolved; the client is not created yet.
InitFactory ==
    /\ BlankPage
    /\ libraryLoaded \in BOOLEAN
    /\ credentials \in [url : ResolvedFields, anonKey : ResolvedFields]
    /\ supabaseClient = "null"
    /\ constructions = 0
    /\ factoryLast = Idle
    /\ env = EnvDone

SpecFactory == InitFactory /\ [][NextFactory]_vars

\* ------------------------------------------------------------------ getEnvVar

\* What a source can hold for a name: nothing, the empty string, a value.
SourceValues(value) == {Undefined, "", value}

\* window[name], process.env[name] and the like as a condition.
NonEmpty(x) == x # Undefined /\ x # ""

\* fallback = ''
Fallback(e) == IF e.fallback = Undefined THEN "" ELSE e.fallback

\* getEnvVar(name, fallback) of the local-first file: the window global, the
\* process environment, the fallback.
A_getEnvVar(e) ==
    IF NonEmpty(e.window) THEN e.window
    ELSE IF NonEmpty(e.process) THEN e.process
    ELSE Fallback(e)

\* getEnvVar(name, fallback) of the remote-first file: the window global, the
\* process environment, import.meta.env[`VITE_${name}`], the fallback.
B_getEnvVar(e) ==
    IF NonEmpty(e.window) THEN e.window
    ELSE IF NonEmpty(e.process) THEN e.process
    ELSE IF NonEmpty(e.meta) THEN e.meta
    ELSE Fallback(e)

\* The script resolves a name.
A_GetEnvVar ==
    /\ impl = "A" /\ env.result = Unresolved
    /\ env' = [env EXCEPT !.result = A_getEnvVar(env)]
    /\ UNCHANGED <<trackerVars, ops, feedbackVars, libraryLoaded, credentials,
                   supabaseClient, constructions, factoryLast>>

B_GetEnvVar ==
    /\ impl = "B" /\ env.result = Unresolved
    /\ env' = [env EXCEPT !.result = B_getEnvVar(env)]
    /\ UNCHANGED <<trackerVars, ops, feedbackVars, libraryLoaded, credentials,
                   supabaseClient, constructions, factoryLast>>

NextEnv == A_GetEnvVar \/ B_GetEnvVar

\* The script is about to resolve a name: the sources hold anything, the
\* configuration object does not exist yet.
InitEnv ==
    /\ BlankPage
    /\ libraryLoaded \in BOOLEAN
    /\ credentials = [url |-> "missing", anonKey |-> "missing"]
    /\ supabaseClient = "null"
    /\ constructions = 0
    /\ factoryLast = Idle
    /\ \E window \in SourceValues("from-window"), process \in SourceValues("from-process"),
          meta \in SourceValues("from-build"), fallback \in SourceValues("fallback") :
         env = Env(window, process, meta, fallback, Unresolved)

SpecEnv == InitEnv /\ [][NextEnv]_vars

\* ------------------------------------- addAppointment and the caller's fields

\* Fields of the input object that the caller did not supply.
NoId == 0
NoStatus == "<none>"

\* A code supplied by the caller, not generated by this page.
CallerCode == <<"USR", 1>>

\* The input objects of addAppointment: each of id, appointmentId and status
\* is supplied or not (the contact fields play no part).
AppointmentData(id, appointmentId, status) ==
    [id |-> id, appointmentId |-> appointmentId, status |-> status]
AddInputs ==
    {AppointmentData(id, appointmentId, status) :
       id \in {NoId, 1}, appointmentId \in {NoCode, CallerCode},
       status \in {NoStatus, "confirmed"}}

\* { id: this.nextId++, appointmentId, ...appointmentData, status: 'pending', ... }
\* the spread stands after id and appointmentId and before status.
A_Appointment(appointmentData, id, appointmentId) ==
    Rec(IF appointmentData.id # NoId THEN appointmentData.id ELSE id,
        NoCode,
        IF appointmentData.appointmentId # NoCode
        THEN appointmentData.appointmentId ELSE appointmentId,
        "pending", "")

\* addAppointment(appointmentData) up to its await (local-first tracker); the
\* remote insert is sent with the generated code.
A_AddCallWith(appointmentData) ==
    /\ impl = "A" /\ op = Idle /\ ops < MaxOps
    /\ ops' = ops + 1
    /\ LET code == LocalCode(nextCode)
           appointment == A_Appointment(appointmentData, nextId, code)
       IN /\ nextCode' = nextCode + 1
          /\ nextId' = nextId + 1
          /\ appointments' = Append(appointments, appointment)
          /\ stored' = appointments'
          /\ IF supabase
             THEN op' = AddOp(code, Len(appointments'), nextId) /\ UNCHANGED last
             ELSE op' = Idle /\ last' = AddLast("local", code, nextId)
    /\ prevSync' = NoSync
    /\ UNCHANGED <<impl, supabase, useDatabase, remote, remoteSeq, loadPc, loadResp,
                   subscribed, events, lastEvent>>
    /\ UNCHANGED auxVars

\* addAppointment(appointmentData) up to its await (remote-first tracker): the
\* record is built field by field, and only the contact fields are read from
\* the input.
B_AddCallWith(appointmentData) ==
    /\ appointmentData \in AddInputs
    /\ B_AddCall

NextInput ==
    \/ LoadServer
    \/ A_LoadDone
    \/ B_LoadDone
    \/ AddServer
    \/ \E appointmentData \in AddInputs : A_AddCallWith(appointmentData)
    \/ A_AddDone
    \/ \E appointmentData \in AddInputs : B_AddCallWith(appointmentData)
    \/ B_AddDone

SpecInput == Init /\ [][NextInput]_vars

\* =================================================================== claims

CountCode(apps, code) == Cardinality({i \in 1..Len(apps) : CodeOf(apps[i]) = code})

IsLocalCode(code) == code # NoCode /\ code[1] = "APT"

\* The step in which addAppointment returns after its remote insert.
AddReturns(result) ==
    op.kind = "add" /\ op.phase = "replied" /\ op.result = result /\ op' = Idle

\* The step in which updateAppointmentStatus returns after its remote update.
UpdateReturns(result) ==
    op.kind = "update" /\ op.phase = "replied" /\ op.result = result /\ op' = Idle

\* The step in which handleRealTimeUpdate handles an event of the given kind.
Handles(type) ==
    events # <<>> /\ Head(events).eventType = type /\ events' = Tail(events)

\* C1: when the remote insert succeeded, at the return of addAppointment the
\* collection holds exactly one record with the generated code, and its id is
\* the id the remote store assigned (stated for the calls made once the
\* initial load has ended).
C1_OneRecordWithRemoteId ==
    [][AddReturns("ok") /\ ~op.loading =>
         /\ CountCode(appointments', op.code) = 1
         /\ \A i \in 1..Len(appointments') :
              CodeOf(appointments'[i]) = op.code => appointments'[i].id = op.data.id]_vars

\* C2: when the remote insert failed, at the return of addAppointment the
\* collection holds exactly one record with the generated code, its id is the
\* locally assigned one, and no other record was lost or duplicated.
C2_OneLocalRecordOnFailure ==
    [][AddReturns("fail") =>
         LET lid == IF impl = "A" THEN op.lid ELSE nextId
         IN /\ CountCode(appointments', op.code) = 1
            /\ \A i \in 1..Len(appointments') :
                 CodeOf(appointments'[i]) = op.code => appointments'[i].id = lid
            /\ impl = "A" => appointments' = appointments
            /\ impl = "B" => /\ Len(appointments') = Len(appointments) + 1
                             /\ Tail(appointments') = appointments]_vars

\* C3: no two records of the collection have the same id.
C3_UniqueIds ==
    \A i, j \in 1..Len(appointments) :
        i # j => appointments[i].id # appointments[j].id

\* C4: once the INSERT event of a row created by a local addAppointment has
\* been handled, the collection never holds two records for that row.
C4_NoDuplicateOfOwnRow ==
    lastEvent.kind = "INSERT" /\ IsLocalCode(lastEvent.code)
        => CountCode(appointments, lastEvent.code) <= 1

UniqueRemoteCodes ==
    \A r1, r2 \in remote : r1.appointment_id = r2.appointment_id => r1 = r2

\* A sync run has ended that followed another on an unchanged local set.
SecondSyncDone == last.kind = "sync" /\ last.outcome = "done" /\ last.prev.valid

C6_SyncCountsAreTrue ==
    last.kind = "sync" /\ last.outcome = "done" =>
        /\ last.synced + last.errors = last.n
        /\ last.synced <= last.wrote

\* C7: updateAppointmentStatus(id, 'confirmed') on a record that is already
\* 'confirmed' dispatches no confirmation notification.
C7_NoEmailWithoutTransition ==
    last.kind = "update" /\ last.oldStatus = "confirmed" /\ last.status = "confirmed"
        => ~last.emailed

\* C8: when the remote update failed, at the return of updateAppointmentStatus
\* the record has the new status and notes, in memory and in local storage.
C8_LocalUpdateSurvivesFailure ==
    [][UpdateReturns("fail") /\ HasId(appointments', op.id) =>
         LET r == appointments'[FindIndex(appointments', op.id)]
         IN /\ r.status = op.status /\ r.notes = op.notes
            /\ \E k \in 1..Len(stored') :
                 /\ stored'[k].id = op.id
                 /\ stored'[k].status = op.status
                 /\ stored'[k].notes = op.notes]_vars

\* C9: an INSERT event whose id is already in the collection changes nothing
\* and shows no notification; otherwise exactly one record, the event's row,
\* is appended.
C9_InsertEventIsIdempotent ==
    [][Handles("INSERT") =>
         LET new == Head(events).new
             n == Len(appointments)
         IN IF HasId(appointments, new.id)
            THEN appointments' = appointments /\ ~lastEvent'.notified
            ELSE /\ Len(appointments') = n + 1
                 /\ SubSeq(appointments', 1, n) = appointments
                 /\ appointments'[n + 1].id = new.id
                 /\ appointments'[n + 1].appointment_id = new.appointment_id
                 /\ lastEvent'.notified]_vars

C9_Witness == lastEvent.kind = "INSERT" /\ lastEvent.hit

\* C10: an UPDATE event whose id is not in the collection changes nothing;
\* otherwise the record at that id becomes the event's row, every other
\* record is kept and the size is unchanged.
C10_UpdateEventNeverInserts ==
    [][Handles("UPDATE") =>
         LET new == Head(events).new
             k == FindIndex(appointments, new.id)
         IN IF k = 0
            THEN appointments' = appointments
            ELSE /\ Len(appointments') = Len(appointments)
                 /\ appointments'[k].id = new.id
                 /\ appointments'[k].status = new.status
                 /\ appointments'[k].notes = new.notes
                 /\ appointments'[k].appointment_id = new.appointment_id
                 /\ \A i \in 1..Len(appointments) :
                      i # k => appointments'[i] = appointments[i]]_vars

C10_Witness == lastEvent.kind = "UPDATE" /\ ~lastEvent.hit

\* C11: after a DELETE event no record with the deleted id remains, and the
\* records with another id are all kept, in their original relative order.
C11_DeleteEventRemovesOnlyThatId ==
    [][Handles("DELETE") =>
         LET old == Head(events).old
             keep == {i \in 1..Len(appointments) : appointments[i].id # old.id}
             kth(k) == CHOOSE i \in keep : Cardinality({j \in keep : j <= i}) = k
         IN /\ ~HasId(appointments', old.id)
            /\ Len(appointments') = Cardinality(keep)
            /\ \A k \in 1..Len(appointments') :
                 appointments'[k] = appointments[kth(k)]]_vars

C11_Witness == lastEvent.kind = "DELETE" /\ lastEvent.hit /\ Len(appointments) > 0

\* C12: loadHomepageTestimonials never returns a record of a row whose rating
\* is below 4, whose comments are empty, or whose show_on_homepage flag is false.
C12_TestimonialsAreEligible ==
    fbLast.kind = "loadHomepage" =>
        \A k \in 1..Len(fbLast.ret.list) :
            LET row == fbLast.rows[k]
                shown == fbLast.ret.list[k]
            IN /\ shown.rating = row.rating /\ shown.comments = row.comments
               /\ row.rating >= 4
               /\ row.comments # "" /\ row.comments # NullText
               /\ row.show_on_homepage = TRUE

\* C13: with no remote client, the k-th addAppointment on an initially empty
\* tracker gets id k; the record it returns is in the collection with status
\* 'pending' and a code no other record has, and the collection is persisted.
C13_LocalAddGetsNextId ==
    ~supabase =>
        /\ \A i \in 1..Len(appointments) :
             appointments[i].id = IF impl = "A" THEN i ELSE Len(appointments) - i + 1
        /\ stored = appointments
        /\ last.kind = "add" =>
             /\ last.outcome = "local"
             /\ last.id = Len(appointments)
             /\ CountCode(appointments, last.code) = 1
             /\ \A i \in 1..Len(appointments) :
                  CodeOf(appointments[i]) = last.code =>
                      /\ appointments[i].id = last.id
                      /\ appointments[i].status = "pending"

C13_Witness == ~supabase /\ last.kind = "add" /\ Len(appointments) >= 2

\* The step in which updateAppointmentStatus(id, ...) is called.
UpdateCalled(id) ==
    \E status \in NewStatuses, notes \in NoteTexts :
        \/ A_UpdateCall(id, status, notes)
        \/ \E sessionValid \in BOOLEAN : B_UpdateCall(id, status, notes, sessionValid)

\* C14: updateAppointmentStatus with an id no record has changes neither the
\* collection, nor the persisted snapshot, nor the remote table; it issues no
\* remote call and dispatches no notification.
C14_UpdateOfUnknownIdIsNoOp ==
    [][\A id \in IdInputs :
         ~HasId(appointments, id) /\ UpdateCalled(id) =>
             /\ appointments' = appointments
             /\ stored' = stored
             /\ remote' = remote /\ events' = events
             /\ op' = Idle
             /\ last'.kind = "update" /\ ~last'.emailed]_vars

C14_Witness == last.kind = "update" /\ last.outcome = "notfound" /\ supabase
               /\ Len(appointments) > 0

\* C15: when the remote update succeeded, at the return of
\* updateAppointmentStatus the record at that id carries what the server's row
\* for that id carries: its id, appointment code, status and notes.
C15_RecordEqualsServerRow ==
    [][UpdateReturns("ok") /\ HasId(appointments', op.id) =>
         LET r == appointments'[FindIndex(appointments', op.id)]
         IN /\ r.id = op.data.id
            /\ CodeOf(r) = op.data.appointment_id
            /\ r.status = op.data.status
            /\ r.notes = op.data.notes]_vars

\* C16: when the initial load succeeded, the collection is the loaded rows (none
\* when the table is empty), the next-id counter is the largest loaded id plus 1
\* (1 when no row was loaded), and the loaded collection is persisted locally.
C16_LoadReplacesAndPersists ==
    [][loadPc = "replied" /\ loadPc' = "done" /\ loadResp.ok =>
         LET data == loadResp.data
         IN /\ Len(appointments') = Len(data)
            /\ \A k \in 1..Len(data) :
                 /\ appointments'[k].id = data[k].id
                 /\ CodeOf(appointments'[k]) = data[k].appointment_id
                 /\ appointments'[k].status = data[k].status
                 /\ appointments'[k].notes = data[k].notes
            /\ nextId' = IF Len(data) = 0 THEN 1 ELSE Max({data[k].id : k \in 1..Len(data)}) + 1
            /\ stored' = appointments']_vars

\* The record of the collection with the given id is the given row.
RecordIs(apps, id, row) ==
    /\ HasId(apps, id)
    /\ LET r == apps[FindIndex(apps, id)]
       IN /\ r.id = row.id
          /\ CodeOf(r) = row.appointment_id
          /\ r.status = row.status
          /\ r.notes = row.notes

\* C17: when an UPDATE event and an updateAppointmentStatus of the remote-first
\* tracker touch the same record, the one that completes last decides the
\* record: an event handled while the update awaits the server leaves the
\* event's row in the record, and the update returning with success leaves the
\* server's returned row in it, whatever events were handled during its await.
C17_LastWriteWins ==
    [][/\ (Handles("UPDATE") /\ op.kind = "update" /\ op.id = Head(events).new.id
            /\ HasId(appointments, op.id)
          => RecordIs(appointments', op.id, Head(events).new))
       /\ (impl = "B" /\ UpdateReturns("ok") /\ HasId(appointments, op.id)
          => RecordIs(appointments', op.id, op.data))]_vars

\* An event of another client was handled during the await of an update of the
\* same record, whose server reply carries another status than the event.
C17_Witness ==
    /\ impl = "B" /\ op.kind = "update" /\ op.phase = "replied" /\ op.result = "ok"
    /\ lastEvent.kind = "UPDATE" /\ lastEvent.hit /\ lastEvent.id = op.id
    /\ HasId(appointments, op.id)
    /\ appointments[FindIndex(appointments, op.id)].status # op.data.status

\* The continuation of the initial load once the server has answered.
LoadContinues == A_LoadDone \/ B_LoadDone

\* The continuation of the operation in flight once the server has answered.
OpContinues ==
    \/ A_AddDone \/ B_AddDone
    \/ A_UpdateDone \/ B_UpdateDone
    \/ A_SyncSelect \/ A_SyncWrite \/ A_SyncDone
    \/ B_SyncSelect \/ B_SyncWrite \/ B_SyncLoad

\* A call of addAppointment.
AddCalled == A_AddCall \/ B_AddCall

\* C18: whatever the server answers to the initial load, to addAppointment, to
\* updateAppointmentStatus or to a step of syncLocalToSupabase, the operation
\* goes on to its end in the tracker (no answer is left unhandled), and a
\* tracker with no operation in flight accepts the next addAppointment; in the
\* remote-first tracker a failed load leaves the tracker in local-only mode.
C18_NoRemoteFailureIsFatal ==
    /\ loadPc = "replied" => ENABLED LoadContinues
    /\ (op.kind \in {"add", "update"} /\ op.phase = "replied") => ENABLED OpContinues
    /\ op.kind = "sync" => ENABLED OpContinues
    /\ (op = Idle /\ ops < MaxOps) => ENABLED AddCalled
    /\ (impl = "B" /\ loadPc = "done" /\ ~loadResp.ok) => ~useDatabase

\* After a failed initial load and a failed remote insert the tracker has taken
\* another addAppointment.
C18_Witness ==
    /\ supabase /\ loadPc = "done" /\ ~loadResp.ok
    /\ last.kind = "add" /\ last.outcome \in {"fail", "local"}
    /\ Len(appointments) >= 2

\* C19: no operation of SupabaseFeedbackManager raises to its caller, and when
\* the client is absent or the remote call came back with an error result or
\* threw, saveFeedback and updateFeedback return null, loadAllFeedback and
\* loadHomepageTestimonials return an empty list and deleteFeedback returns
\* false.
C19_FeedbackIsFailSoft ==
    fbLast.kind # "none" =>
      /\ ~fbLast.ret.raised
      /\ fbLast.out \in {"disconnected", "error", "throw"} =>
           CASE fbLast.kind \in {"save", "update"} -> fbLast.ret = ReturnsNull
             [] fbLast.kind \in {"loadAll", "loadHomepage"} -> fbLast.ret = ReturnsList(<<>>)
             [] fbLast.kind = "delete" -> fbLast.ret = ReturnsFlag(FALSE)

\* A deleteFeedback whose remote call threw, with rows in the table.
C19_Witness == fbLast.kind = "delete" /\ fbLast.out = "throw" /\ fbTable # {}

\* A run of the client factory of either file.
FactoryRuns == A_InitSupabase \/ B_CreateClient

\* C20: a run of the client factory hands back the handle or null and never
\* raises; it hands back null when the library is absent, when a credential is
\* missing or a placeholder, and when the construction threw; a handle once
\* constructed is handed back by every later run; and createClient is called at
\* most once in a session.
C20_FactoryFailsSoftAndConstructsOnce ==
    [][FactoryRuns =>
         /\ factoryLast'.ret \in {"null", "handle"}
         /\ factoryLast'.ret = supabaseClient'
         /\ supabaseClient = "handle" =>
              factoryLast'.ret = "handle" /\ constructions' = constructions
         /\ (supabaseClient = "null"
               /\ (~libraryLoaded \/ A_Unconfigured(credentials))) =>
              factoryLast'.ret = "null" /\ constructions' = constructions
         /\ factoryLast'.why = "threw" => factoryLast'.ret = "null"
         /\ constructions' <= 1]_vars

\* An appointmentId that is an integer reference: a positive whole number, or
\* the text of one.
IsIntegerReference(v) ==
    /\ v.type \in {"number", "string"}
    /\ v.chars # <<>> /\ LeadingDigits(v.chars) = v.chars
    /\ ToInt(v.chars) >= 1

\* C21: the row saveFeedback sends carries an appointment_id only when the
\* appointmentId it was given is an integer reference, and then that integer;
\* for an absent, empty, non-numeric or otherwise invalid appointmentId the row
\* carries no appointment_id (the field is left out, or null).
C21_LinkOnlyForIntegerReference ==
    [][\A v \in LinkInputs :
         (supabase
            /\ SaveFeedback([Feedback(4, "great", TRUE) EXCEPT !.appointmentId = v]))
         => LET sent == fbOp'.row.appointment_id
            IN IF IsIntegerReference(v)
               THEN ColumnInt(sent) = [ok |-> TRUE, link |-> IntLink(ToInt(v.chars))]
               ELSE sent.kind \in {"omitted", "null"}]_vars

\* C22: syncLocalToSupabase of the feedback manager returns 0 without a client
\* and for no list or an empty one; otherwise it has tried every item of the
\* list, in the order of the list, whatever came of the items before, and the
\* number it returns is the number of items whose row was inserted.
C22_FeedbackSyncCountsSuccesses ==
    fbLast.kind = "sync" =>
      IF fbLast.out = "skipped"
      THEN fbLast.synced = 0 /\ (~supabase \/ fbLast.list = <<>>)
      ELSE LET saved == {k \in 1..Len(fbLast.results) : fbLast.results[k] # 0}
           IN /\ supabase
              /\ Len(fbLast.results) = Len(fbLast.list)
              /\ fbLast.synced = Cardinality(saved)
              /\ \A k \in saved :
                   \E r \in fbTable :
                     /\ r.id = fbLast.results[k]
                     /\ r.rating = fbLast.list[k].rating
                     /\ r.comments = fbLast.list[k].comments
              /\ \A k, m \in saved : k < m => fbLast.results[k] < fbLast.results[m]

\* A run in which an item failed and a later item was saved.
C22_Witness ==
    /\ fbLast.kind = "sync" /\ fbLast.out = "done"
    /\ \E k, m \in 1..Len(fbLast.results) :
         k < m /\ fbLast.results[k] = 0 /\ fbLast.results[m] # 0

\* The step in which the table applies the request of an updateFeedback to
\* the row with the id.
FeedbackUpdated ==
    /\ fbOp.kind = "update" /\ fbOp.phase = "sent"
    /\ fbOp'.phase = "replied" /\ fbOp'.out = "ok"

\* The columns of old, of the given ones, that the request did not name are
\* the same in new.
KeptColumns(old, new, fields, columns) ==
    /\ new.id = old.id
    /\ "appointment_id" \in columns => new.appointment_id = old.appointment_id
    /\ ("rating" \in columns /\ "rating" \notin fields) => new.rating = old.rating
    /\ ("comments" \in columns /\ "comments" \notin fields) => new.comments = old.comments
    /\ ("show_on_homepage" \in columns /\ "showOnHomepage" \notin fields)
         => new.show_on_homepage = old.show_on_homepage
    /\ "updated_at" \in columns => new.updated_at = old.updated_at

\* C23 as stated: updateFeedback leaves every column that was not supplied as it
\* was, updated_at included.
C23_UnsuppliedColumnsKept ==
    [][FeedbackUpdated =>
         LET old == CHOOSE r \in fbTable : r.id = fbOp.row.id
             new == CHOOSE r \in fbTable' : r.id = fbOp.row.id
         IN /\ fbTable' \ {new} = fbTable \ {old}
            /\ KeptColumns(old, new, fbOp.fields,
                           {"appointment_id", "rating", "comments", "show_on_homepage",
                            "updated_at"})]_vars

\* C23 amended: updateFeedback changes the row with the id only; a supplied
\* field takes the supplied value, every other column but updated_at keeps its
\* value, and updated_at is set to the time of the call on every update.
C23_UnsuppliedColumnsKeptButUpdatedAt ==
    [][FeedbackUpdated =>
         LET old == CHOOSE r \in fbTable : r.id = fbOp.row.id
             new == CHOOSE r \in fbTable' : r.id = fbOp.row.id
         IN /\ fbTable' \ {new} = fbTable \ {old}
            /\ KeptColumns(old, new, fbOp.fields,
                           {"appointment_id", "rating", "comments", "show_on_homepage"})
            /\ "rating" \in fbOp.fields => new.rating = fbOp.row.rating
            /\ "comments" \in fbOp.fields => new.comments = fbOp.row.comments
            /\ "showOnHomepage" \in fbOp.fields
                 => new.show_on_homepage = fbOp.row.show_on_homepage
            /\ new.updated_at = fbOp.row.updated_at]_vars

\* An update of the homepage flag alone has returned a row whose comments are
\* not those of the request.
C23_Witness ==
    /\ fbLast.kind = "update" /\ fbLast.out = "ok"
    /\ fbLast.ret.row.comments = "great" /\ fbLast.ret.row.show_on_homepage
    /\ fbLast.ret.row.updated_at >= 2

\* C24: getEnvVar returns the first non-empty value of the window global, the
\* process environment variable and the build-time variable, in that order,
\* and the fallback ('' when none is supplied) if all three are absent or
\* empty; it always returns a value.
C24_FirstNonEmptySource ==
    env.result # Unresolved =>
      /\ env.result # Undefined
      /\ env.result =
           IF NonEmpty(env.window) THEN env.window
           ELSE IF NonEmpty(env.process) THEN env.process
           ELSE IF NonEmpty(env.meta) THEN env.meta
           ELSE IF env.fallback = Undefined THEN "" ELSE env.fallback

\* A remote table that holds exactly one row for the code of each record of
\* arr, with the record's status and notes.
Mirrored(arr) ==
    \A k \in 1..Len(arr) :
      LET rows == {r \in remote : r.appointment_id = CodeOf(arr[k])}
      IN /\ Cardinality(rows) = 1
         /\ \A r \in rows : r.status = arr[k].status /\ r.notes = arr[k].notes

IsRemoteRow(a) == \E r \in remote : r.id = a.id /\ r.appointment_id = CodeOf(a)

\* C26: once the remote-first tracker has loaded from the remote store, the
\* collection is ordered most recent first: of two records that are rows of
\* the table, the one created later stands first.
C26_MostRecentFirst ==
    (impl = "B" /\ loadPc = "done" /\ loadResp.ok) =>
      \A i, j \in 1..Len(appointments) :
        (i < j /\ IsRemoteRow(appointments[i]) /\ IsRemoteRow(appointments[j]))
          => appointments[i].id > appointments[j].id

\* The codes readable through the camel-case alias of a record.
AliasedCodes(apps) == {apps[i].appointmentId : i \in 1..Len(apps)} \ {NoCode}

\* An addAppointment or updateAppointmentStatus call completes (the remote id
\* is substituted, the returned row is stored), or an UPDATE event is handled.
UpdatesARecord ==
    \/ op.kind \in {"add", "update"} /\ op' = Idle
    \/ /\ events # <<>> /\ events' = Tail(events)
       /\ Head(events).eventType = "UPDATE"

\* C27: the appointment code of a record is immutable: a code readable through
\* the alias appointmentId is still readable through it after a status update
\* completes, a remote id is substituted or an UPDATE event is handled.
C27_CodeKeptUnderAlias ==
    [][UpdatesARecord => AliasedCodes(appointments) \subseteq AliasedCodes(appointments')]_vars

\* The server applies the update of an updateAppointmentStatus in flight to
\* rows of the record's own appointment only.
UpdateHitsOwnRow ==
    (op.kind = "update" /\ op.phase = "sent" /\ remote' # remote) =>
      LET i == FindIndex(appointments, op.id)
      IN \A r \in remote \ remote' :
           i # 0 => r.appointment_id = CodeOf(appointments[i])

\* The row an update returned replaces the record of the same appointment.
UpdateStoresOwnRow ==
    (impl = "B" /\ op.kind = "update" /\ op.phase = "replied" /\ op' = Idle) =>
      LET i == FindIndex(appointments, op.id)
      IN (i # 0 /\ appointments'[i] # appointments[i])
           => CodeOf(appointments'[i]) = CodeOf(appointments[i])

\* C28: updateAppointmentStatus never changes a remote row of another
\* appointment than the local record being updated, and never replaces the
\* local record by another appointment's row.
C28_UpdateStaysWithinAppointment ==
    [][UpdateHitsOwnRow /\ UpdateStoresOwnRow]_vars

HasCode(apps, code) == \E i \in 1..Len(apps) : CodeOf(apps[i]) = code

\* An addAppointment called during the initial load completes after it.
AddEndsAfterLoad ==
    op.kind = "add" /\ op.loading /\ op' = Idle /\ loadPc = "done"

\* The initial load completes after an addAppointment that was called during
\* it; the row that add inserted, if any, is still in the table.
LoadEndsAfterAdd ==
    /\ loadPc = "replied" /\ loadPc' = "done"
    /\ op = Idle /\ last.kind = "add"
    /\ last.outcome = "ok" => \E r \in remote : r.appointment_id = last.code

\* C29: a record added by addAppointment while the initial load is in flight
\* is in the collection once both have completed, whichever completes last.
C29_AddDuringLoadIsKept ==
    [][/\ AddEndsAfterLoad => HasCode(appointments', op.code)
       /\ LoadEndsAfterAdd => HasCode(appointments', last.code)]_vars

\* C30: the next-id counter is greater than the id of every record of the
\* collection, so that a locally assigned id is fresh.
C30_NextIdIsFresh ==
    \A i \in 1..Len(appointments) : appointments[i].id < nextId

\* Neither the initial load nor a tracker operation is in flight.
NothingInFlight == op = Idle /\ loadPc \notin {"sent", "replied"}

\* C31: whenever no operation is in flight, the snapshot persisted to local
\* storage equals the in-memory collection.
C31_BackupInStepWithMemory == NothingInFlight => stored = appointments

\* The record that addAppointment has just put into the collection carries
\* the given id and code and the status 'pending'.
Created(a, id, code) == a.id = id /\ CodeOf(a) = code /\ a.status = "pending"

\* C32: for every input object passed to addAppointment, the created record
\* has the newly assigned id, the freshly generated code and status 'pending',
\* whatever the input itself carries in id, appointmentId and status.
C32_SystemFieldsNotOverridden ==
    [][/\ \A appointmentData \in AddInputs :
            A_AddCallWith(appointmentData) =>
              Created(appointments'[Len(appointments')], nextId, LocalCode(nextCode))
       /\ (impl = "B" /\ op = Idle /\ nextCode' = nextCode + 1 /\ op' = Idle) =>
            Created(Head(appointments'), nextId, LocalCode(nextCode))
       /\ (impl = "B" /\ op.kind = "add" /\ op.phase = "replied" /\ op' = Idle) =>
            Created(Head(appointments'),
                    IF op.result = "ok" THEN op.data.id ELSE nextId, op.code)]_vars

\* C33: in the remote-first tracker, updateAppointmentStatus called while the
\* admin session is not valid modifies no record, issues no remote update and
\* dispatches no confirmation; it ends with the session-expired notice.
C33_ExpiredSessionChangesNothing ==
    [][\A id \in IdInputs, status \in NewStatuses, notes \in NoteTexts :
         B_UpdateCall(id, status, notes, FALSE) =>
             /\ appointments' = appointments
             /\ stored' = stored
             /\ remote' = remote /\ events' = events
             /\ op' = Idle
             /\ last'.outcome = "expired" /\ ~last'.emailed]_vars

\* The call named a record of the collection, the database in use.
C33_Witness ==
    /\ impl = "B" /\ useDatabase
    /\ last.kind = "update" /\ last.outcome = "expired" /\ last.status = "confirmed"
    /\ HasId(appointments, last.id)

\* The initial load of the remote-first tracker has failed.
LoadFailed == impl = "B" /\ loadPc = "done" /\ ~loadResp.ok

\* C34: once the initial load of the remote-first tracker has failed,
\* useDatabase is false and stays false, the live-update subscription is never
\* set up, and no call made from then on puts a remote request in flight.
C34_LocalOnlyAfterFailedLoad ==
    [][LoadFailed =>
         /\ ~useDatabase /\ ~useDatabase'
         /\ ~subscribed /\ ~subscribed'
         /\ loadPc' = "done"
         /\ op = Idle => op' = Idle]_vars

\* An addAppointment called after the failed load was served locally.
C34_Witness ==
    /\ LoadFailed /\ supabase
    /\ last.kind = "add" /\ last.outcome = "local"

====
